---- MODULE Spec2Model ----
(***************************************************************************)
(* MIGS payment backend: the transaction store, the PaymentService         *)
(* operations (createPayment, processPaymentResponse, cancelPayment,       *)
(* refundPayment, queryPaymentByTxnRef), the secure-hash codec and the     *)
(* payment-status reconciliation worker.                                   *)
(*                                                                         *)
(* Amounts are whole currency units (the DECIMAL(10,2) column holds them   *)
(* exactly).  JavaScript strings are TLA+ strings; a value a gateway reply *)
(* may hold as a string or as a number is a tagged record (JsStr, JsNum),  *)
(* so that the code's strict comparisons (===, switch) are typed.          *)
(* A digest is the record of what was hashed (an injective hash).          *)
(***************************************************************************)
EXTENDS Integers, Sequences, FiniteSets, TLC

VARIABLES store, now, last, codec, race, queue, hook, mpgs, config

vars == <<store, now, last, codec, race, queue, hook, mpgs, config>>

\* ---------------------------------------------------------------- bounds
MaxTxns == 2
MaxAmount == 2
MaxNow == 6

\* ------------------------------------------------------ program constants
StaleMinutes == 5
DefaultBatchSize == 50
MinRefLength == 5
MaxRefLength == 50

\* --------------------------------------------------------- configuration
secureSecret == "0F0F"
accessCode == "ACCESS"
merchantId == "MERCHANT"
configReturnUrl == "https://merchant/return"
vpcSecureAlgo == "SHA256"

Null == "<null>"
\* a DATE column that holds no date
NullDate == -1
\* a JSONB column that holds no document
NullJson == [null |-> TRUE]

\* TransactionStatus
PENDING == "pending"
SUCCESS == "success"
FAILED == "failed"
CANCELLED == "cancelled"
REFUNDED == "refunded"
PARTIALLY_REFUNDED == "partially_refunded"

TransactionStatus == {PENDING, SUCCESS, FAILED, CANCELLED, REFUNDED, PARTIALLY_REFUNDED}

\* ------------------------------------------------------------ JS values
JsStr(s) == [t |-> "string", s |-> s, n |-> 0]
JsNum(n) == [t |-> "number", s |-> "", n |-> n]
Undefined == [t |-> "undefined", s |-> "", n |-> 0]

\* String.prototype.trim on the values of this model
Trim(v) ==
  CASE v = " " -> ""
    [] v = " 0" -> "0"
    [] v = "0 " -> "0"
    [] OTHER -> v

\* the characters of a string; a value without an entry is one symbol
Chars(v) ==
  CASE v = "" -> <<>>
    [] v = " " -> <<" ">>
    [] v = " 0" -> <<" ", "0">>
    [] v = "0 " -> <<"0", " ">>
    [] OTHER -> <<v>>

\* /^\d+$/ on the values of this model
IsDigits(v) == v \in {"0", "5", "9", "77", "88"}

\* parseInt(v, 10) for a value that IsDigits
ParseInt(v) ==
  CASE v = "0" -> 0
    [] v = "5" -> 5
    [] v = "9" -> 9
    [] v = "77" -> 77
    [] v = "88" -> 88
    [] OTHER -> 0

\* (amount * 100).toString()
CentsString(a) ==
  CASE a = 1 -> "100"
    [] a = 2 -> "200"
    [] a = 3 -> "300"
    [] a = 4 -> "400"
    [] OTHER -> "NaN"

\* Buffer.from(secret, 'hex'): decoding stops at the first non-hex pair
HexDecode(s) ==
  CASE s = "0F0F" -> <<15, 15>>
    [] s = "0F0FZZ" -> <<15, 15>>
    [] OTHER -> <<>>

\* ------------------------------------------------------ secure hash codec
\* every parameter name of the protocol, in Array.prototype.sort order
KeyOrder ==
  << "vpc_AccessCode", "vpc_Amount", "vpc_AuthorizeId", "vpc_BatchNo",
     "vpc_Command", "vpc_Gateway", "vpc_Locale", "vpc_MerchTxnRef",
     "vpc_Merchant", "vpc_Message", "vpc_OrderInfo", "vpc_ReceiptNo",
     "vpc_ReturnURL", "vpc_TransNo", "vpc_TransactionNo",
     "vpc_TxnResponseCode", "vpc_Version" >>

EmptyDigest == [alg |-> "", key |-> <<>>, msg |-> <<>>]

\* a vpc_SecureHash entry that holds null
NullDigest == [alg |-> "<null>", key |-> <<>>, msg |-> <<>>]

\* generateSecureHash throws: Unsupported hash type
HashError == [alg |-> "<Error>", key |-> <<>>, msg |-> <<"Unsupported hash type">>]

\* the pairs key=value of the query string, in order; the values of this
\* model hold no "=" and no "&", so the pairs determine the joined string
JoinPairs(keys, p) ==
  [i \in 1..Len(keys) |-> <<keys[i], Trim(p[keys[i]])>>]

RECURSIVE JoinValues(_, _)
JoinValues(keys, p) ==
  IF keys = <<>> THEN <<>>
  ELSE Chars(Trim(p[Head(keys)])) \o JoinValues(Tail(keys), p)

\* a parameter goes into the signature
IsFiltered(parameters, k) ==
  /\ k \in DOMAIN parameters
  /\ k # "vpc_SecureHash"
  /\ k # "vpc_SecureHashType"
  /\ parameters[k] # Null
  /\ Trim(parameters[k]) # ""

\* a sort that leaves the keys in insertion order
SortKeys_Unsorted(keys) == keys

\* Array.prototype.sort() on parameter names: the names of keys, in the
\* order of the default comparison
SortKeys(keys) ==
  LET names == { keys[i] : i \in DOMAIN keys } IN
  SelectSeq(KeyOrder, LAMBDA k : k \in names)

\* keys: Object.keys(parameters), the insertion order of the map; a name
\* that is not in the map reads as undefined
generateSecureHashOf(keys, parameters, vpcSecureSecret, hashType) ==
  LET sortedKeys == SortKeys(SelectSeq(keys, LAMBDA k : IsFiltered(parameters, k))) IN
  IF hashType = "MD5"
  THEN [alg |-> "MD5", key |-> <<>>,
        msg |-> Chars(vpcSecureSecret) \o JoinValues(sortedKeys, parameters)]
  ELSE IF hashType = "SHA256"
  THEN [alg |-> "SHA256", key |-> HexDecode(vpcSecureSecret),
        msg |-> JoinPairs(sortedKeys, parameters)]
  ELSE HashError

generateSecureHash(parameters, vpcSecureSecret, hashType) ==
  generateSecureHashOf(KeyOrder, parameters, vpcSecureSecret, hashType)

\* a verification that only looks for a signature
verifySecureHash_AnySignature(parameters, vpcSecureSecret, hashType) ==
  /\ "vpc_SecureHash" \in DOMAIN parameters
  /\ parameters["vpc_SecureHash"] # EmptyDigest

\* !providedHash: the entry is absent, null or empty
NoProvidedHash(parameters) ==
  \/ "vpc_SecureHash" \notin DOMAIN parameters
  \/ parameters["vpc_SecureHash"] = EmptyDigest
  \/ parameters["vpc_SecureHash"] = NullDigest

verifySecureHash(parameters, vpcSecureSecret, hashType) ==
  IF NoProvidedHash(parameters)
  THEN FALSE
  ELSE generateSecureHash(parameters, vpcSecureSecret, hashType)
         = parameters["vpc_SecureHash"]

\* a verification that computes the signature before it looks for one
verifySecureHashThrows_ComputesFirst(parameters, vpcSecureSecret, hashType) ==
  generateSecureHash(parameters, vpcSecureSecret, hashType) = HashError

\* verifySecureHash throws what generateSecureHash throws
verifySecureHashThrows(parameters, vpcSecureSecret, hashType) ==
  /\ ~NoProvidedHash(parameters)
  /\ generateSecureHash(parameters, vpcSecureSecret, hashType) = HashError

\* ------------------------------------------------------ transaction store
\* merchantTxnRef of the n-th created transaction (generateTxnRef is fresh)
generateTxnRef(n) ==
  CASE n = 1 -> "MIGS_1700000000001_AAAAAAAA"
    [] n = 2 -> "MIGS_1700000000002_BBBBBBBB"
    [] n = 3 -> "MIGS_1700000000003_CCCCCCCC"
    [] OTHER -> "MIGS_1700000000004_DDDDDDDD"

UnknownRef == "MIGS_1700000000000_00000000"

\* a reference of 51 characters
LongRef == "MIGS_1700000000000_00000000_000000000000000000000000"

\* String.prototype.length of the references of this model
RefLength(ref) ==
  CASE ref = "" -> 0
    [] ref = " " -> 1
    [] ref = "MIG" -> 3
    [] ref = LongRef -> 51
    [] OTHER -> 27

\* paymentModel.findOne({ where: { merchantTxnRef } }): the id, 0 when absent
findByRef(st, ref) ==
  IF \E i \in DOMAIN st : st[i].merchantTxnRef = ref
  THEN CHOOSE i \in DOMAIN st : st[i].merchantTxnRef = ref
  ELSE 0

\* paymentModel.findByPk(id): the id, 0 when absent
findByPk(st, id) == IF id \in DOMAIN st THEN id ELSE 0

\* instance.update(patch): the named columns are overwritten
UpdateRow(row, patch) ==
  [f \in DOMAIN row |-> IF f \in DOMAIN patch THEN patch[f] ELSE row[f]]

\* an UPDATE without its WHERE id = ...
UpdateStore_EveryRow(st, id, patch) == [i \in DOMAIN st |-> UpdateRow(st[i], patch)]

UpdateStore(st, id, patch) == [st EXCEPT ![id] = UpdateRow(st[id], patch)]

\* ------------------------------------------------------- createPayment
CreateVpcData(merchantTxnRef, orderInfo, amount) ==
  LET vpcData == [vpc_Version |-> "1", vpc_Command |-> "pay",
                  vpc_AccessCode |-> accessCode,
                  vpc_MerchTxnRef |-> merchantTxnRef,
                  vpc_Merchant |-> merchantId,
                  vpc_OrderInfo |-> orderInfo,
                  vpc_Amount |-> CentsString(amount),
                  vpc_ReturnURL |-> configReturnUrl,
                  vpc_Locale |-> "en", vpc_Gateway |-> "ssl"]
      secureHash == generateSecureHash(vpcData, secureSecret, vpcSecureAlgo)
  IN [k \in DOMAIN vpcData \cup {"vpc_SecureHash", "vpc_SecureHashType"} |->
        IF k = "vpc_SecureHash" THEN secureHash
        ELSE IF k = "vpc_SecureHashType" THEN vpcSecureAlgo
        ELSE vpcData[k]]

NewRow(id, amount, t) ==
  [id |-> id, merchantTxnRef |-> generateTxnRef(id), amount |-> amount,
   status |-> PENDING, refundedAmount |-> 0,
   transactionId |-> Null, responseCode |-> Null, responseMessage |-> Null,
   authCode |-> Null, receiptNo |-> Null, batchNo |-> Null,
   gatewayResponse |-> NullJson,
   vpcData |-> CreateVpcData(generateTxnRef(id), "Order", amount),
   processedAt |-> NullDate, createdAt |-> t]

\* result of an operation: the store it commits, the error it raises, the
\* command it sent to the gateway
Result(st, error, message, cmd) ==
  [store |-> st, error |-> error, message |-> message, cmd |-> cmd]

\* the steps of createPayment after which the attempt may throw
CreateFailures == {"none", "create", "update", "commit"}

\* transaction.rollback(): what was written under the transaction is dropped
rollback_KeepsWrites(committed, written) == written

rollback(committed, written) == committed

\* failAt: the step that throws (the catch rolls back and rethrows)
createPayment(st, amount, t, failAt) ==
  LET id == Len(st) + 1
      created == Append(st, [NewRow(id, amount, t) EXCEPT !.vpcData = NullJson])
      audited == UpdateStore(created, id, [vpcData |-> NewRow(id, amount, t).vpcData])
  IN CASE failAt = "create" -> Result(rollback(st, st), "Error", "store write failed", "none")
       [] failAt = "update" -> Result(rollback(st, created), "Error", "store write failed", "none")
       [] failAt = "commit" -> Result(rollback(st, audited), "Error", "store write failed", "none")
       [] OTHER -> Result(audited, "none", "", "none")

\* ------------------------------------------------ processPaymentResponse
\* the status a callback's vpc_TxnResponseCode maps to
callbackStatus_AlwaysFailed(code) == FAILED

callbackStatus(code) == IF code = "0" THEN SUCCESS ELSE FAILED

\* a callback handler that takes a callback for a pending transaction only
processPaymentResponse_PendingOnly(st, responseData, t) ==
  IF ~verifySecureHash(responseData, secureSecret, vpcSecureAlgo)
  THEN Result(st, "BadRequestException",
              "Invalid secure hash - response integrity compromised", "none")
  ELSE LET id == findByRef(st, responseData["vpc_MerchTxnRef"]) IN
    IF id = 0 THEN Result(st, "NotFoundException", "Transaction not found", "none")
    ELSE IF st[id].status # PENDING
    THEN Result(st, "BadRequestException", "Transaction already processed", "none")
    ELSE Result(UpdateStore(st, id,
               [transactionId |-> responseData["vpc_TransactionNo"],
                responseCode |-> responseData["vpc_TxnResponseCode"],
                responseMessage |-> responseData["vpc_Message"],
                authCode |-> responseData["vpc_AuthorizeId"],
                receiptNo |-> responseData["vpc_ReceiptNo"],
                batchNo |-> responseData["vpc_BatchNo"],
                gatewayResponse |-> responseData,
                processedAt |-> t,
                status |-> callbackStatus(responseData["vpc_TxnResponseCode"])]),
             "none", "", "none")

processPaymentResponse(st, responseData, t) ==
  IF ~verifySecureHash(responseData, secureSecret, vpcSecureAlgo)
  THEN Result(st, "BadRequestException",
              "Invalid secure hash - response integrity compromised", "none")
  ELSE LET id == findByRef(st, responseData["vpc_MerchTxnRef"]) IN
    IF id = 0 THEN Result(st, "NotFoundException", "Transaction not found", "none")
    ELSE LET transactionStatus == callbackStatus(responseData["vpc_TxnResponseCode"])
             updateData ==
               [transactionId |-> responseData["vpc_TransactionNo"],
                responseCode |-> responseData["vpc_TxnResponseCode"],
                responseMessage |-> responseData["vpc_Message"],
                authCode |-> responseData["vpc_AuthorizeId"],
                receiptNo |-> responseData["vpc_ReceiptNo"],
                batchNo |-> responseData["vpc_BatchNo"],
                gatewayResponse |-> responseData,
                processedAt |-> t,
                status |-> transactionStatus]
         IN Result(UpdateStore(st, id, updateData), "none", "", "none")

\* ------------------------------------------------------- handleCallback
\* what the endpoint answers: an HTTP status and, for a redirect, the page
\* and the ref and id of its query string
NoReply == [status |-> 0, url |-> "", page |-> "", ref |-> "", id |-> 0]

Redirect(page, ref, id) ==
  [status |-> 302, url |-> "http://localhost:5173", page |-> page, ref |-> ref, id |-> id]

\* what processPaymentResponse did, and the endpoint's answer
Answered302(r, reply) ==
  [store |-> r.store, error |-> r.error, message |-> r.message, cmd |-> r.cmd,
   reply |-> reply]

handleCallback_FailureOnError(st, responseData, t) ==
  LET r == processPaymentResponse(st, responseData, t)
      id == findByRef(r.store, responseData["vpc_MerchTxnRef"])
  IN Answered302(r, IF r.error # "none" THEN Redirect("/payment/failure", "", 0)
                    ELSE IF r.store[id].status = SUCCESS
                    THEN Redirect("/payment/success", r.store[id].merchantTxnRef, id)
                    ELSE Redirect("/payment/failure", r.store[id].merchantTxnRef, id))

handleCallback(st, responseData, t) ==
  LET r == processPaymentResponse(st, responseData, t)
      id == findByRef(r.store, responseData["vpc_MerchTxnRef"])
  IN Answered302(r, IF r.error # "none" THEN Redirect("/payment/error", "", 0)
                    ELSE IF r.store[id].status = SUCCESS
                    THEN Redirect("/payment/success", r.store[id].merchantTxnRef, id)
                    ELSE Redirect("/payment/failure", r.store[id].merchantTxnRef, id))

\* ---------------------------------------------------------- cancelPayment
\* a cancellation that does not look at the status
cancelPayment_NoStatusCheck(st, paymentId, t) ==
  LET id == findByPk(st, paymentId) IN
  IF id = 0 THEN Result(st, "NotFoundException", "Payment not found", "none")
  ELSE Result(UpdateStore(st, id, [status |-> CANCELLED, processedAt |-> t]),
              "none", "", "none")

\* a cancellation that writes the status alone
cancelPayment_StatusOnly(st, paymentId, t) ==
  LET id == findByPk(st, paymentId) IN
  IF id = 0 THEN Result(st, "NotFoundException", "Payment not found", "none")
  ELSE IF st[id].status # PENDING
  THEN Result(st, "BadRequestException", "Payment cannot be cancelled", "none")
  ELSE Result(UpdateStore(st, id, [status |-> CANCELLED]), "none", "", "none")

cancelPayment(st, paymentId, t) ==
  LET id == findByPk(st, paymentId) IN
  IF id = 0 THEN Result(st, "NotFoundException", "Payment not found", "none")
  ELSE IF st[id].status # PENDING
  THEN Result(st, "BadRequestException", "Payment cannot be cancelled", "none")
  ELSE Result(UpdateStore(st, id, [status |-> CANCELLED, processedAt |-> t]),
              "none", "", "none")

\* --------------------------------------------------------- gateway client
\* An HTTP exchange with the gateway: net is the transport outcome ("ok" or
\* the axios error code), status the HTTP status, data the body axios hands
\* over: a string (with what includes() finds in it and, when it is
\* form-encoded, its pairs), an object, or null.
StringBody(pairs, eq, amp, space) ==
  [type |-> "string", pairs |-> pairs, eq |-> eq, amp |-> amp, space |-> space]
ObjectBody(fields) ==
  [type |-> "object", pairs |-> fields, eq |-> FALSE, amp |-> FALSE, space |-> FALSE]
NullBody ==
  [type |-> "null", pairs |-> <<>>, eq |-> FALSE, amp |-> FALSE, space |-> FALSE]

Exchange(net, status, data) == [net |-> net, status |-> status, data |-> data]

Get(response, key) == IF key \in DOMAIN response THEN response[key] ELSE Undefined

\* a value in a condition: undefined, null, "" and 0 are falsy
Truthy(v) ==
  CASE v = Undefined -> FALSE
    [] v = EmptyDigest -> FALSE
    [] v = NullDigest -> FALSE
    [] v = JsStr("") -> FALSE
    [] v = JsNum(0) -> FALSE
    [] OTHER -> TRUE

parseResponse(pairs) ==
  [k \in DOMAIN pairs |->
     IF k = "vpc_SecureHash" THEN pairs[k]
     ELSE IF IsDigits(pairs[k]) THEN JsNum(ParseInt(pairs[k]))
     ELSE JsStr(pairs[k])]

\* what makeApiCall returns or throws
Returned(value) == [error |-> "none", message |-> "", value |-> value]
Thrown(error, message) == [error |-> error, message |-> message, value |-> <<>>]

makeApiCall(exchange) ==
  IF exchange.net = "ECONNABORTED"
  THEN Thrown("GatewayTimeoutException", "Gateway request timed out")
  ELSE IF exchange.net \in {"ENOTFOUND", "ECONNREFUSED"}
  THEN Thrown("ServiceUnavailableException", "Gateway service is not reachable")
  ELSE IF exchange.net # "ok" \/ exchange.status >= 500
  THEN Thrown("ServiceUnavailableException", "Gateway communication failed")
  ELSE IF exchange.status >= 400
  THEN Thrown("ServiceUnavailableException", "Unexpected error during gateway communication")
  ELSE IF exchange.data.type = "string"
  THEN IF exchange.data.eq /\ (exchange.data.amp \/ ~exchange.data.space)
       THEN Returned(parseResponse(exchange.data.pairs))
       ELSE Returned([rawResponse |-> JsStr("text")])
  ELSE IF exchange.data.type = "null" THEN Returned(<<>>)
  ELSE Returned(exchange.data.pairs)

\* the parameters of a parsed response as verifySecureHash receives them:
\* processQueryResponse strips vpc_SecureHash and vpc_SecureHashType first
dataForHash(response) ==
  [k \in DOMAIN response \ {"vpc_SecureHash", "vpc_SecureHashType"} |-> response[k]]

processQueryResponse(body, response) ==
  IF body.type = "null"
  THEN Thrown("ServiceUnavailableException", "Empty response received from gateway")
  ELSE IF /\ Truthy(Get(response, "vpc_SecureHash"))
          /\ ~verifySecureHash(dataForHash(response), secureSecret,
                               IF "vpc_SecureHashType" \in DOMAIN response
                               THEN response["vpc_SecureHashType"].s
                               ELSE "SHA256")
  THEN Thrown("ServiceUnavailableException", "Response validation failed")
  ELSE Returned(response)

\* makeApiCall followed by processQueryResponse, as both callers chain them
callGateway(exchange) ==
  LET r == makeApiCall(exchange) IN
  IF r.error # "none" THEN r ELSE processQueryResponse(exchange.data, r.value)

\* ---------------------------------------------------------- refundPayment
\* every exception is caught, rolled back and replaced by one exception
RefundFailed(st, cmd) ==
  Result(st, "BadRequestException", "Refund processing failed", cmd)

\* the status check that guards a refund
refundEligible_NotPending(row) == row.status # PENDING

refundEligible(row) == row.status = SUCCESS

\* what is left to refund
availableAmount_Whole(row) == row.amount

availableAmount(row) == row.amount - row.refundedAmount

refundPayment(st, paymentId, amount, exchange) ==
  LET id == findByPk(st, paymentId) IN
  IF id = 0 THEN RefundFailed(st, "none")
  ELSE IF ~refundEligible(st[id]) THEN RefundFailed(st, "none")
  ELSE
    IF amount > availableAmount(st[id]) THEN RefundFailed(st, "none")
    ELSE LET r == callGateway(exchange) IN
      IF r.error # "none" THEN RefundFailed(st, "refund")
      ELSE IF Get(r.value, "vpc_TxnResponseCode") = JsStr("0")
      THEN LET newRefundedAmount == st[id].refundedAmount + amount
               newStatus == IF newRefundedAmount >= st[id].amount
                            THEN REFUNDED ELSE PARTIALLY_REFUNDED
           IN Result(UpdateStore(st, id, [refundedAmount |-> newRefundedAmount,
                                          status |-> newStatus]),
                     "none", "", "refund")
      ELSE Result(st, "none", "", "refund")

\* --------------------------------------------------- queryPaymentByTxnRef
Queried(error, message, cmd, value) ==
  [error |-> error, message |-> message, cmd |-> cmd, value |-> value]

\* a query that does not look the reference up locally
queryPaymentByTxnRef_NoLookup(st, merchantTxnRef, exchange) ==
  LET trimmedRef == Trim(merchantTxnRef) IN
  IF merchantTxnRef = Null \/ RefLength(merchantTxnRef) = 0
  THEN Queried("BadRequestException",
               "Merchant Transaction Reference is required and must be a string",
               "none", <<>>)
  ELSE IF RefLength(trimmedRef) = 0
  THEN Queried("BadRequestException",
               "Merchant Transaction Reference cannot be empty", "none", <<>>)
  ELSE IF RefLength(trimmedRef) < MinRefLength \/ RefLength(trimmedRef) > MaxRefLength
  THEN Queried("BadRequestException",
               "Merchant Transaction Reference has invalid length", "none", <<>>)
  ELSE LET r == callGateway(exchange) IN
       Queried(r.error, r.message, "queryDR", r.value)

queryPaymentByTxnRef(st, merchantTxnRef, exchange) ==
  LET trimmedRef == Trim(merchantTxnRef) IN
  IF merchantTxnRef = Null \/ RefLength(merchantTxnRef) = 0
  THEN Queried("BadRequestException",
               "Merchant Transaction Reference is required and must be a string",
               "none", <<>>)
  ELSE IF RefLength(trimmedRef) = 0
  THEN Queried("BadRequestException",
               "Merchant Transaction Reference cannot be empty", "none", <<>>)
  ELSE IF RefLength(trimmedRef) < MinRefLength \/ RefLength(trimmedRef) > MaxRefLength
  THEN Queried("BadRequestException",
               "Merchant Transaction Reference has invalid length", "none", <<>>)
  ELSE IF findByRef(st, trimmedRef) = 0
  THEN Queried("NotFoundException",
               "Merchant Transaction Reference Id is Invalid", "none", <<>>)
  ELSE LET r == callGateway(exchange) IN
       Queried(r.error, r.message, "queryDR", r.value)

\* --------------------------------------------------- reconciliation worker
mapGatewayStatusToLocal(responseCode) ==
  IF responseCode.t # "string" THEN Null
  ELSE IF responseCode.s = "0" THEN SUCCESS
  ELSE IF responseCode.s \in {"1", "2", "3", "4", "5", "6", "7"} THEN FAILED
  ELSE Null

isRetryableError(error) ==
  error \in {"ServiceUnavailableException", "GatewayTimeoutException"}

\* a column value from a field of a parsed response
NumString(n) ==
  CASE n = 0 -> "0"
    [] n = 5 -> "5"
    [] n = 9 -> "9"
    [] n = 77 -> "77"
    [] OTHER -> "88"

Column(old, v) ==
  IF v.t = "string" THEN v.s ELSE IF v.t = "number" THEN NumString(v.n) ELSE old

IsStale_AnyPending(row, t) == row.status = PENDING

IsStale(row, t) == row.status = PENDING /\ row.createdAt < t - StaleMinutes

\* the results findAll may return: the stale pending rows, oldest first (rows
\* of equal createdAt in either order), cut at the limit
Batches(st, t, batchSize) ==
  LET stale == { i \in DOMAIN st : IsStale(st[i], t) }
      \* job.data.batchSize || 50
      limit == IF batchSize = 0 THEN DefaultBatchSize ELSE batchSize
      n == IF Cardinality(stale) < limit THEN Cardinality(stale) ELSE limit
  IN { b \in [1..n -> stale] :
         /\ \A i, j \in 1..n : i # j => b[i] # b[j]
         /\ \A i, j \in 1..n : i < j => st[b[i]].createdAt <= st[b[j]].createdAt
         /\ \A k \in stale : (\A i \in 1..n : b[i] # k)
               => \A i \in 1..n : st[b[i]].createdAt <= st[k].createdAt }

NoCounts ==
  [processedCount |-> 0, updatedCount |-> 0, errorCount |-> 0,
   skippedCount |-> 0, errors |-> <<>>]

\* the else branch of the loop: nothing to write
Skipped_CountsUpdate(st, counted) ==
  [store |-> st, counts |-> [counted EXCEPT !.updatedCount = @ + 1]]

\* an else branch that counts nothing
Skipped_Uncounted(st, counted) == [store |-> st, counts |-> counted]

Skipped(st, counted) ==
  [store |-> st, counts |-> [counted EXCEPT !.skippedCount = @ + 1]]

\* one iteration of the loop over pendingTransactions; snap is the row as
\* findAll returned it
SyncOne(acc, snap, exchange, writeFails, t) ==
  LET q == queryPaymentByTxnRef(acc.store, snap.merchantTxnRef, exchange)
      counted == [acc.counts EXCEPT !.processedCount = @ + 1]
      failed(message, retryable) ==
        [store |-> acc.store,
         counts |-> [counted EXCEPT
                       !.errorCount = @ + 1,
                       !.errors = Append(@, [merchantTxnRef |-> snap.merchantTxnRef,
                                             error |-> message,
                                             retryable |-> retryable])]]
  IN IF q.error # "none" THEN failed(q.message, isRetryableError(q.error))
     ELSE LET gatewayStatus ==
                mapGatewayStatusToLocal(Get(q.value, "vpc_TxnResponseCode"))
              row == acc.store[snap.id]
          IN IF gatewayStatus # Null /\ gatewayStatus # snap.status
             THEN IF writeFails THEN failed("store write failed", FALSE)
                  ELSE [store |-> UpdateStore(acc.store, snap.id,
                          [status |-> gatewayStatus,
                           responseCode |-> Column(row.responseCode, Get(q.value, "vpc_TxnResponseCode")),
                           responseMessage |-> Column(row.responseMessage, Get(q.value, "vpc_Message")),
                           transactionId |-> Column(row.transactionId, Get(q.value, "vpc_TransactionNo")),
                           authCode |-> Column(row.authCode, Get(q.value, "vpc_AuthorizeId")),
                           receiptNo |-> Column(row.receiptNo, Get(q.value, "vpc_ReceiptNo")),
                           processedAt |-> t]),
                        counts |-> [counted EXCEPT !.updatedCount = @ + 1]]
             ELSE Skipped(acc.store, counted)

RECURSIVE SyncLoop_AbortsOnError(_, _, _, _, _, _)
SyncLoop_AbortsOnError(acc, snaps, batch, exchanges, writeFails, t) ==
  IF batch = <<>> \/ acc.counts.errorCount > 0 THEN acc
  ELSE SyncLoop_AbortsOnError(SyncOne(acc, snaps[Head(batch)], exchanges[Head(batch)],
                                      Head(batch) \in writeFails, t),
                              snaps, Tail(batch), exchanges, writeFails, t)

RECURSIVE SyncLoop(_, _, _, _, _, _)
SyncLoop(acc, snaps, batch, exchanges, writeFails, t) ==
  IF batch = <<>> THEN acc
  ELSE SyncLoop(SyncOne(acc, snaps[Head(batch)], exchanges[Head(batch)],
                        Head(batch) \in writeFails, t),
                snaps, Tail(batch), exchanges, writeFails, t)

\* a run whose findAll returned batch; exchanges names the gateway's answer
\* to the query for each selected transaction
handlePaymentStatusSync(st, batch, exchanges, writeFails, t) ==
  SyncLoop([store |-> st, counts |-> NoCounts], st, batch, exchanges, writeFails, t)

\* ----------------------------------------------------------------- inputs
\* what the gateway reports for a transaction under a response code
GatewayFields(code) ==
  [vpc_TxnResponseCode |-> code,
   vpc_Message |-> IF code = "0" THEN "Approved" ELSE "Declined",
   vpc_TransactionNo |-> "77",
   vpc_AuthorizeId |-> "AUTH",
   vpc_ReceiptNo |-> "RCPT",
   vpc_BatchNo |-> "BATCH"]

WithKeys(f, g) ==
  [k \in DOMAIN f \cup DOMAIN g |-> IF k \in DOMAIN g THEN g[k] ELSE f[k]]

\* the gateway signs what it sends
GatewaySigned(fields) ==
  WithKeys(fields, [vpc_SecureHash |-> generateSecureHash(fields, secureSecret, "SHA256"),
                    vpc_SecureHashType |-> "SHA256"])

\* one character of the signature flipped
Tampered(digest) == [digest EXCEPT !.msg = Append(@, "~")]

SignatureKinds == {"valid", "tampered", "missing"}

\* the query parameters of a callback request
Callback(ref, code, sig) ==
  LET fields == WithKeys(GatewayFields(code), [vpc_MerchTxnRef |-> ref])
      signed == GatewaySigned(fields)
  IN CASE sig = "valid" -> signed
       [] sig = "tampered" ->
            [signed EXCEPT !["vpc_SecureHash"] = Tampered(@)]
       [] sig = "empty" ->
            [signed EXCEPT !["vpc_SecureHash"] = EmptyDigest]
       [] OTHER -> fields

CallbackCodes == {"0", "5"}

CallbackRefs == { generateTxnRef(i) : i \in 1..MaxTxns } \cup {UnknownRef}

\* the callback requests of this model, by reference, code and signature
Callbacks ==
  [ref \in CallbackRefs, code \in CallbackCodes, sig \in SignatureKinds |->
     Callback(ref, code, sig)]

\* bodies the gateway answers a command with
FormReply(code) == StringBody(GatewayFields(code), TRUE, TRUE, FALSE)
SignedFormReply(code) == StringBody(GatewaySigned(GatewayFields(code)), TRUE, TRUE, FALSE)
TextReply == StringBody(<<>>, FALSE, FALSE, TRUE)
JsonFields(code) ==
  [k \in DOMAIN GatewayFields(code) |-> JsStr(GatewayFields(code)[k])]
JsonReply(code) == ObjectBody(JsonFields(code))
SignedJsonReply(code) ==
  ObjectBody(WithKeys(JsonFields(code),
       [vpc_SecureHash |-> generateSecureHash(GatewayFields(code), secureSecret, "SHA256"),
        vpc_SecureHashType |-> JsStr("SHA256")]))

\* the exchanges of this model, by name
TheExchange(name) ==
  CASE name = "timeout" -> Exchange("ECONNABORTED", 0, NullBody)
    [] name = "refused" -> Exchange("ECONNREFUSED", 0, NullBody)
    [] name = "http500" -> Exchange("ERR_BAD_RESPONSE", 500, NullBody)
    [] name = "http400" -> Exchange("ok", 400, TextReply)
    [] name = "form0" -> Exchange("ok", 200, FormReply("0"))
    [] name = "form5" -> Exchange("ok", 200, FormReply("5"))
    [] name = "signedForm0" -> Exchange("ok", 200, SignedFormReply("0"))
    [] name = "json0" -> Exchange("ok", 200, JsonReply("0"))
    [] name = "json5" -> Exchange("ok", 200, JsonReply("5"))
    [] name = "json9" -> Exchange("ok", 200, JsonReply("9"))
    [] name = "signedJson0" -> Exchange("ok", 200, SignedJsonReply("0"))
    [] name = "text" -> Exchange("ok", 200, TextReply)
    [] OTHER -> Exchange("ok", 200, NullBody)

ExchangeNames ==
  { "", "timeout", "refused", "http500", "http400", "form0", "form5", "signedForm0",
    "json0", "json5", "json9", "signedJson0", "text" }

Exchanges == [name \in ExchangeNames |-> TheExchange(name)]

RefundExchanges ==
  { "timeout", "form0", "form5", "json0", "json5", "signedJson0" }

SyncExchanges == { "timeout", "form0", "json0", "json5" }

\* what a caller may ask queryPaymentByTxnRef about, and what the gateway
\* may answer
QueryRefs ==
  { generateTxnRef(i) : i \in 1..MaxTxns } \cup {UnknownRef, "", " ", "MIG", LongRef}

QueryExchanges == { "form0", "signedForm0", "http400", "text" }

\* the response code the gateway gave, "" when it gave none
GatewayCode(exchange) ==
  IF exchange.net = "ok" /\ exchange.status = 200
     /\ "vpc_TxnResponseCode" \in DOMAIN exchange.data.pairs
  THEN IF exchange.data.type = "string"
       THEN exchange.data.pairs["vpc_TxnResponseCode"]
       ELSE exchange.data.pairs["vpc_TxnResponseCode"].s
  ELSE ""

\* ---------------------------------------------------------------- actions
\* the record of the last operation: its name and inputs, the status its
\* transaction had before it (was), and what it returned, raised and sent
Did(op, id, amount, input, r) ==
  [op |-> op, id |-> id, amount |-> amount, input |-> input,
   was |-> IF id \in DOMAIN store THEN store[id].status ELSE "",
   error |-> r.error, message |-> r.message, cmd |-> r.cmd, counts |-> NoCounts,
   reply |-> NoReply]

\* the codec is not exercised on its own
\* what a specification leaves aside: the codec, the interleaved runs, the
\* queue, the webhook, the MPGS service or the construction of the service
NotExercised == [step |-> "none"]

Init ==
  /\ store = <<>>
  /\ now = 0
  /\ last = [op |-> "init", id |-> 0, amount |-> 0, input |-> "", was |-> "",
             error |-> "none", message |-> "", cmd |-> "none", counts |-> NoCounts, reply |-> NoReply]
  /\ codec = NotExercised
  /\ race = NotExercised
  /\ queue = NotExercised
  /\ hook = NotExercised
  /\ mpgs = NotExercised
  /\ config = NotExercised

CreatePayment ==
  \E amount \in {MaxAmount}, failAt \in CreateFailures :
    /\ Len(store) < MaxTxns
    /\ LET r == createPayment(store, amount, now, failAt) IN
         /\ store' = r.store
         /\ last' = Did("createPayment", Len(store) + 1, amount, "", r)
    /\ UNCHANGED <<now, codec, race, queue, hook, mpgs, config>>

ProcessPaymentResponse ==
  \E ref \in CallbackRefs, code \in CallbackCodes, sig \in SignatureKinds :
    LET responseData == Callbacks[ref, code, sig]
        r == handleCallback(store, responseData, now)
    IN /\ store' = r.store
       /\ last' = [Did("processPaymentResponse", findByRef(store, ref), 0,
                        [ref |-> ref, code |-> code, sig |-> sig], r)
                      EXCEPT !.reply = r.reply]
       /\ UNCHANGED <<now, codec, race, queue, hook, mpgs, config>>

CancelPayment ==
  \E paymentId \in 1..(MaxTxns + 1) :
    LET r == cancelPayment(store, paymentId, now) IN
      /\ store' = r.store
      /\ last' = Did("cancelPayment", paymentId, 0, "", r)
      /\ UNCHANGED <<now, codec, race, queue, hook, mpgs, config>>

\* an exchange takes place only when the query is sent
QueryPaymentByTxnRef ==
  \E ref \in QueryRefs :
    \E exchange \in IF queryPaymentByTxnRef(store, ref, Exchanges[""]).cmd = "none"
                     THEN {""} ELSE QueryExchanges :
      LET r == queryPaymentByTxnRef(store, ref, Exchanges[exchange]) IN
        /\ last' = Did("queryPaymentByTxnRef", findByRef(store, Trim(ref)), 0,
                        [ref |-> ref, exchange |-> exchange], r)
        /\ UNCHANGED <<store, now, codec, race, queue, hook, mpgs, config>>

\* an exchange takes place only when the refund command is sent
RefundPayment ==
  \E paymentId \in 1..(MaxTxns + 1), amount \in 1..(MaxAmount + 1) :
    \E exchange \in IF refundPayment(store, paymentId, amount, Exchanges[""]).cmd = "none"
                     THEN {""} ELSE RefundExchanges :
      LET r == refundPayment(store, paymentId, amount, Exchanges[exchange]) IN
        /\ store' = r.store
        /\ last' = Did("refundPayment", paymentId, amount, exchange, r)
        /\ UNCHANGED <<now, codec, race, queue, hook, mpgs, config>>

HandlePaymentStatusSync ==
  \E batchSize \in {0, 1}, findAll \in {"rows", "SequelizeDatabaseError"} :
    IF findAll # "rows"
    THEN /\ last' = [op |-> "handlePaymentStatusSync", id |-> 0,
                     amount |-> batchSize, was |-> "",
                     input |-> [batch |-> <<>>, exchanges |-> <<>>],
                     error |-> findAll, message |-> "findAll failed",
                     cmd |-> "none", counts |-> NoCounts, reply |-> NoReply]
         /\ UNCHANGED <<store, now, codec, race, queue, hook, mpgs, config>>
    ELSE
    \E batch \in Batches(store, now, batchSize) :
      \E exchanges \in [{ batch[i] : i \in DOMAIN batch } -> SyncExchanges],
         writeFails \in SUBSET { batch[i] : i \in DOMAIN batch } :
        /\ \A id \in writeFails :
             mapGatewayStatusToLocal(Get(callGateway(Exchanges[exchanges[id]]).value,
                                         "vpc_TxnResponseCode")) # Null
        /\ LET r == handlePaymentStatusSync(store, batch,
                       [id \in DOMAIN exchanges |-> Exchanges[exchanges[id]]],
                       writeFails, now) IN
             /\ store' = r.store
             /\ last' = [op |-> "handlePaymentStatusSync", id |-> 0,
                         amount |-> batchSize, was |-> "",
                         input |-> [batch |-> batch, exchanges |-> exchanges],
                         error |-> "none", message |-> "", cmd |-> "queryDR",
                         counts |-> r.counts, reply |-> NoReply]
        /\ UNCHANGED <<now, codec, race, queue, hook, mpgs, config>>

\* time passes: more than StaleMinutes
Tick ==
  /\ now + StaleMinutes + 1 <= MaxNow
  /\ now' = now + StaleMinutes + 1
  /\ last' = Did("tick", 0, 0, "", Result(<<>>, "none", "", "none"))
  /\ UNCHANGED <<store, codec, race, queue, hook, mpgs, config>>

Next ==
  \/ CreatePayment
  \/ ProcessPaymentResponse
  \/ CancelPayment
  \/ RefundPayment
  \/ QueryPaymentByTxnRef
  \/ HandlePaymentStatusSync
  \/ Tick

Spec == Init /\ [][Next]_vars

\* ------------------------------------------------- the codec on its own
\* parameter maps, secrets and algorithms the codec is applied to
CodecKeys == {"vpc_Amount", "vpc_Command"}

CodecValues == {"0", "0 ", "5", " ", Null}

Secrets == {secureSecret, "0F0FZZ"}

HashTypes == {"MD5", "SHA256", "SHA512"}

ParameterMaps == UNION { [S -> CodecValues] : S \in SUBSET CodecKeys }

\* the orders in which the keys of a map may have been inserted
InsertionOrders(S) ==
  { o \in [1..Cardinality(S) -> S] : \A i, j \in DOMAIN o : i # j => o[i] # o[j] }

\* what a caller of verifySecureHash puts under vpc_SecureHash
Attachments == {"signature", "absent", "null", "empty"}

Attach(parameters, attached, signature) ==
  CASE attached = "signature" -> WithKeys(parameters, [vpc_SecureHash |-> signature])
    [] attached = "null" -> WithKeys(parameters, [vpc_SecureHash |-> NullDigest])
    [] attached = "empty" -> WithKeys(parameters, [vpc_SecureHash |-> EmptyDigest])
    [] OTHER -> parameters

CodecInit ==
  /\ store = <<>>
  /\ now = 0
  /\ last = [op |-> "init", id |-> 0, amount |-> 0, input |-> "", was |-> "",
             error |-> "none", message |-> "", cmd |-> "none", counts |-> NoCounts, reply |-> NoReply]
  /\ race = NotExercised
  /\ queue = NotExercised
  /\ hook = NotExercised
  /\ mpgs = NotExercised
  /\ config = NotExercised
  /\ \E p \in ParameterMaps, s \in Secrets, t \in HashTypes :
       \E o \in InsertionOrders(DOMAIN p) :
         codec = [parameters |-> p, keys |-> o, secret |-> s, hashType |-> t,
                  signed |-> p, signature |-> EmptyDigest, altered |-> "",
                  attached |-> "", verified |-> "none", step |-> "input"]

\* the map is signed
GenerateSecureHash ==
  /\ codec.step = "input"
  /\ LET h == generateSecureHashOf(codec.keys, codec.parameters,
                                   codec.secret, codec.hashType)
     IN codec' = [codec EXCEPT !.signature = h,
                               !.step = IF h = HashError THEN "threw" ELSE "signed"]
  /\ UNCHANGED <<store, now, last, race, queue, hook, mpgs, config>>

\* one value of the signed map is changed
SetValue ==
  /\ codec.step = "signed"
  /\ codec.altered = ""
  /\ \E k \in DOMAIN codec.parameters :
       \E v \in CodecValues \ {codec.parameters[k]} :
         codec' = [codec EXCEPT !.parameters[k] = v, !.altered = k]
  /\ UNCHANGED <<store, now, last, race, queue, hook, mpgs, config>>

\* the map is verified with what the caller attached as its signature
VerifySecureHash ==
  /\ codec.step \in {"signed", "threw"}
  /\ \E attached \in Attachments :
       LET q == Attach(codec.parameters, attached, codec.signature) IN
       codec' = [codec EXCEPT
                   !.attached = attached,
                   !.verified =
                      IF verifySecureHashThrows(q, codec.secret, codec.hashType)
                      THEN "throws"
                      ELSE IF verifySecureHash(q, codec.secret, codec.hashType)
                      THEN "true" ELSE "false",
                   !.step = "verified"]
  /\ UNCHANGED <<store, now, last, race, queue, hook, mpgs, config>>

CodecNext ==
  \/ GenerateSecureHash
  \/ SetValue
  \/ VerifySecureHash

CodecSpec == CodecInit /\ [][CodecNext]_vars

\* ------------------------------------- handlers interleaved on one store
\* Two deliveries of the reconciliation job, a cancellation and a callback
\* run against the same rows. A run reads its batch once (findAll) and then
\* takes one transaction per step; cancelPayment reads the row and writes it
\* in a later step (no row lock is taken between findByPk and update); the
\* callback writes without looking at the row, so it is one step. The
\* gateway's record of each transaction does not change meanwhile.
NothingDone ==
  [op |-> "init", id |-> 0, amount |-> 0, input |-> "", was |-> "",
   error |-> "none", message |-> "", cmd |-> "none", counts |-> NoCounts, reply |-> NoReply]

RECURSIVE PendingStore(_)
PendingStore(n) ==
  IF n = 0 THEN <<>> ELSE createPayment(PendingStore(n - 1), MaxAmount, 0, "none").store

\* the rows the handlers meet: pending and stale
Origin == PendingStore(MaxTxns)

Runs == {"run1", "run2"}

IdleRun ==
  [pc |-> "idle", batch |-> <<>>, snaps |-> <<>>, k |-> 0, counts |-> NoCounts,
   after |-> FALSE]

\* the UPDATE statements of a transaction that read seen and produced
\* written, committed over the rows st
Overwrite(st, seen, written) ==
  [i \in DOMAIN st |->
     [f \in DOMAIN st[i] |->
        IF written[i][f] # seen[i][f] THEN written[i][f] ELSE st[i][f]]]

ConcurrentInit ==
  /\ store = Origin
  /\ now = StaleMinutes + 1
  /\ last = NothingDone
  /\ codec = NotExercised
  /\ queue = NotExercised
  /\ hook = NotExercised
  /\ mpgs = NotExercised
  /\ config = NotExercised
  /\ \E gateway \in [DOMAIN Origin -> SyncExchanges], code \in CallbackCodes :
       race = [gateway |-> gateway,
               runs |-> [w \in Runs |-> IdleRun],
               cancel |-> [pc |-> "idle", seen |-> <<>>, error |-> "none"],
               callback |-> [pc |-> "idle", code |-> code, error |-> "none"]]

\* findAll: the run's batch and the rows as they are now; after tells whether
\* the other delivery had finished by then
StartRun(w) ==
  /\ race.runs[w].pc = "idle"
  /\ \E batchSize \in {0, 1} :
       \E batch \in Batches(store, now, batchSize) :
         race' = [race EXCEPT !.runs[w] =
                    [pc |-> IF batch = <<>> THEN "done" ELSE "loop",
                     batch |-> batch, snaps |-> store, k |-> 1, counts |-> NoCounts,
                     after |-> race.runs[CHOOSE v \in Runs : v # w].pc = "done"]]
  /\ UNCHANGED <<store, now, last, codec, queue, hook, mpgs, config>>

\* one iteration of the run's loop
StepRun(w) ==
  /\ race.runs[w].pc = "loop"
  /\ \E writeFails \in BOOLEAN :
       LET run == race.runs[w]
           id == run.batch[run.k]
           acc == SyncOne([store |-> store, counts |-> run.counts], run.snaps[id],
                          Exchanges[race.gateway[id]], writeFails, now)
       IN /\ store' = acc.store
          /\ race' = [race EXCEPT !.runs[w] =
                        [run EXCEPT !.counts = acc.counts,
                                    !.k = @ + 1,
                                    !.pc = IF run.k = Len(run.batch)
                                           THEN "done" ELSE "loop"]]
  /\ UNCHANGED <<now, last, codec, queue, hook, mpgs, config>>

\* cancelPayment of transaction 1: findByPk
CancelRead ==
  /\ race.cancel.pc = "idle"
  /\ race' = [race EXCEPT !.cancel = [pc |-> "read", seen |-> store, error |-> "none"]]
  /\ UNCHANGED <<store, now, last, codec, queue, hook, mpgs, config>>

\* cancelPayment: the status check on the row as read, update and commit
CancelWrite ==
  /\ race.cancel.pc = "read"
  /\ LET r == cancelPayment(race.cancel.seen, 1, now) IN
       /\ store' = IF r.error = "none"
                   THEN Overwrite(store, race.cancel.seen, r.store) ELSE store
       /\ race' = [race EXCEPT !.cancel =
                     [pc |-> "done", seen |-> <<>>, error |-> r.error]]
  /\ UNCHANGED <<now, last, codec, queue, hook, mpgs, config>>

\* processPaymentResponse for a correctly signed callback for transaction 1
CallbackArrives ==
  /\ race.callback.pc = "idle"
  /\ LET r == processPaymentResponse(
                store, Callbacks[generateTxnRef(1), race.callback.code, "valid"],
                now) IN
       /\ store' = r.store
       /\ race' = [race EXCEPT !.callback.pc = "done", !.callback.error = r.error]
  /\ UNCHANGED <<now, last, codec, queue, hook, mpgs, config>>

ConcurrentNext ==
  \/ \E w \in Runs : StartRun(w)
  \/ \E w \in Runs : StepRun(w)
  \/ CancelRead
  \/ CancelWrite
  \/ CallbackArrives

ConcurrentSpec == ConcurrentInit /\ [][ConcurrentNext]_vars

\* ------------------------------------------ the queue and its cron trigger
\* The reconciliation queue holds waiting and active jobs; the scheduler and
\* the manual trigger add jobs, the processor takes and finishes them, and
\* the fallback cron reads getWaiting, then getActive, then decides. Each
\* await of the cron is a step, and each of them may raise.
MaxJobs == 2

\* waiting.length === 0 && active.length === 0
fallbackNeeded_IgnoresActive(waiting, active) == waiting = 0

fallbackNeeded(waiting, active) == waiting = 0 /\ active = 0

\* the catch of the cron handler logs and returns
cronCatch(error) == "swallowed"

IdleCron == [pc |-> "idle", waiting |-> 0, active |-> 0, outcome |-> "none"]

QueueInit ==
  /\ store = <<>>
  /\ now = 0
  /\ last = NothingDone
  /\ codec = NotExercised
  /\ race = NotExercised
  /\ hook = NotExercised
  /\ mpgs = NotExercised
  /\ config = NotExercised
  /\ queue = [waiting |-> 0, active |-> 0, cron |-> IdleCron]

\* the repeating job comes due, or triggerStatusSync adds a job
AddJob ==
  /\ queue.waiting < MaxJobs
  /\ queue' = [queue EXCEPT !.waiting = @ + 1]
  /\ UNCHANGED <<store, now, last, codec, race, hook, mpgs, config>>

\* the processor takes the next waiting job
TakeJob ==
  /\ queue.waiting > 0
  /\ queue.active = 0
  /\ queue' = [queue EXCEPT !.waiting = @ - 1, !.active = @ + 1]
  /\ UNCHANGED <<store, now, last, codec, race, hook, mpgs, config>>

\* the active job completes or fails
FinishJob ==
  /\ queue.active > 0
  /\ queue' = [queue EXCEPT !.active = @ - 1]
  /\ UNCHANGED <<store, now, last, codec, race, hook, mpgs, config>>

\* handlePaymentStatusSyncCron: getWaiting
CronGetWaiting ==
  /\ queue.cron.pc = "idle"
  /\ \E fails \in BOOLEAN :
       queue' = [queue EXCEPT !.cron =
                   IF fails
                   THEN [IdleCron EXCEPT !.outcome = cronCatch("getWaiting")]
                   ELSE [pc |-> "getActive", waiting |-> queue.waiting,
                         active |-> 0, outcome |-> "none"]]
  /\ UNCHANGED <<store, now, last, codec, race, hook, mpgs, config>>

\* handlePaymentStatusSyncCron: getActive
CronGetActive ==
  /\ queue.cron.pc = "getActive"
  /\ \E fails \in BOOLEAN :
       queue' = [queue EXCEPT !.cron =
                   IF fails
                   THEN [queue.cron EXCEPT !.pc = "idle",
                                           !.outcome = cronCatch("getActive")]
                   ELSE [queue.cron EXCEPT !.pc = "decide",
                                           !.active = queue.active]]
  /\ UNCHANGED <<store, now, last, codec, race, hook, mpgs, config>>

\* handlePaymentStatusSyncCron: the test and the add
CronDecide ==
  /\ queue.cron.pc = "decide"
  /\ \E fails \in BOOLEAN :
       IF ~fallbackNeeded(queue.cron.waiting, queue.cron.active)
       THEN queue' = [queue EXCEPT !.cron.pc = "idle", !.cron.outcome = "skipped"]
       ELSE IF fails
       THEN queue' = [queue EXCEPT !.cron.pc = "idle",
                                   !.cron.outcome = cronCatch("add")]
       ELSE queue' = [queue EXCEPT !.waiting = @ + 1,
                                   !.cron.pc = "idle", !.cron.outcome = "added"]
  /\ UNCHANGED <<store, now, last, codec, race, hook, mpgs, config>>

QueueNext ==
  \/ AddJob
  \/ TakeJob
  \/ FinishJob
  \/ CronGetWaiting
  \/ CronGetActive
  \/ CronDecide

QueueSpec == QueueInit /\ [][QueueNext]_vars

\* ------------------------------------------------- the Mashreq webhook
\* hook holds the Mashreq transactions (status by mashreq_transaction_id),
\* the webhook log, the last request and the answer it got.
MaxLogs == 2

webhookSecret == "MASHREQ_WEBHOOK_SECRET"

MashreqIds == {"T1", "T2"}

\* createHmac('sha256', secret).update(payload).digest('hex'): 64 characters
HmacSha256Hex(secret, payload) ==
  [present |-> TRUE, len |-> 64, mac |-> [key |-> secret, msg |-> payload]]

\* what may arrive in the x-mashreq-signature header for a body
SignatureHeader(kind, payload) ==
  CASE kind = "valid" -> HmacSha256Hex(webhookSecret, payload)
    [] kind = "missing" -> [present |-> FALSE, len |-> 0, mac |-> [key |-> "", msg |-> payload]]
    [] kind = "short" -> [HmacSha256Hex(webhookSecret, payload) EXCEPT !.len = 63]
    [] OTHER -> HmacSha256Hex("another secret", payload)

\* Buffer.from(undefined) raises a TypeError and timingSafeEqual raises a
\* RangeError for buffers of different length
verifyWebhookSignature(payload, signature) ==
  LET expectedSignature == HmacSha256Hex(webhookSecret, payload) IN
  IF ~signature.present THEN "TypeError"
  ELSE IF signature.len # expectedSignature.len THEN "RangeError"
  ELSE IF signature.mac = expectedSignature.mac THEN "true" ELSE "false"

\* the switch on payload.status
internalStatus(status) ==
  CASE status \in {"payment.succeeded", "transfer.completed", "bill.paid"} -> SUCCESS
    [] status \in {"payment.failed", "transfer.failed", "bill.failed"} -> FAILED
    [] status = "payment.cancelled" -> CANCELLED
    [] status = "payment.refunded" -> REFUNDED
    [] OTHER -> PENDING

updateTransactionStatus(txns, transactionId, status) ==
  IF transactionId \in DOMAIN txns THEN [txns EXCEPT ![transactionId] = status] ELSE txns

\* webhookLogModel.update({processed: true}, {where: {transaction_id}})
MarkProcessed(logs, transactionId) ==
  [i \in DOMAIN logs |->
     IF logs[i].transaction_id = transactionId
     THEN [logs[i] EXCEPT !.processed = TRUE] ELSE logs[i]]

Answer200(status, message) == [raised |-> "none", status |-> status, message |-> message]

Raised(error) == [raised |-> error, status |-> "", message |-> ""]

\* failAt: the store call that fails
handleMashreqWebhook(h, rawBody, payload, signature, failAt) ==
  IF ~rawBody THEN [h EXCEPT !.reply = Answer200("error", "Missing raw body")]
  ELSE LET verified == verifyWebhookSignature(payload, signature) IN
    IF verified \in {"TypeError", "RangeError"} THEN [h EXCEPT !.reply = Raised(verified)]
    ELSE IF verified = "false"
    THEN [h EXCEPT !.reply = Answer200("error", "Invalid signature")]
    ELSE IF failAt = "create" THEN [h EXCEPT !.reply = Raised("SequelizeDatabaseError")]
    ELSE LET logged == Append(h.logs, [transaction_id |-> payload.transaction_id,
                                       processed |-> FALSE])
         IN IF failAt = "update"
            THEN [h EXCEPT !.logs = logged,
                           !.reply = Answer200("error", "Processing failed")]
            ELSE [h EXCEPT
                    !.txns = updateTransactionStatus(h.txns, payload.transaction_id,
                                                     internalStatus(payload.status)),
                    !.logs = MarkProcessed(logged, payload.transaction_id),
                    !.reply = Answer200("ok", "")]

NoRequest == [rawBody |-> FALSE, header |-> "", transaction_id |-> "", status |-> ""]

WebhookInit ==
  /\ store = <<>>
  /\ now = 0
  /\ last = NothingDone
  /\ codec = NotExercised
  /\ race = NotExercised
  /\ queue = NotExercised
  /\ mpgs = NotExercised
  /\ config = NotExercised
  /\ hook = [txns |-> [id \in MashreqIds |-> PENDING], logs |-> <<>>,
             request |-> NoRequest, reply |-> Answer200("", "")]

HandleMashreqWebhook ==
  /\ Len(hook.logs) < MaxLogs
  /\ \E rawBody \in BOOLEAN,
        header \in {"valid", "missing", "short", "wrong"},
        failAt \in {"none", "create", "update"},
        transactionId \in MashreqIds \cup {"T9"},
        status \in {"payment.succeeded", "payment.failed", "payment.cancelled", "ping"} :
       LET payload == [transaction_id |-> transactionId, status |-> status] IN
         hook' = [handleMashreqWebhook(hook, rawBody, payload,
                                       SignatureHeader(header, payload), failAt)
                    EXCEPT !.request = [rawBody |-> rawBody, header |-> header,
                                        transaction_id |-> transactionId,
                                        status |-> status]]
  /\ UNCHANGED <<store, now, last, codec, race, queue, mpgs, config>>

WebhookSpec == WebhookInit /\ [][HandleMashreqWebhook]_vars

\* ---------------------------------------------------- the MPGS variant
\* mpgs holds the MPGS payments (status, amount, refundedAmount and the
\* gateway's transaction id) and the last call with the error it raised.
\* A call names a payment (one more than exist: an unknown transactionId)
\* and meets a gateway that answers or throws.
MpgsInit ==
  /\ store = <<>>
  /\ now = 0
  /\ last = NothingDone
  /\ codec = NotExercised
  /\ race = NotExercised
  /\ queue = NotExercised
  /\ hook = NotExercised
  /\ config = NotExercised
  /\ mpgs = [payments |-> [i \in 1..MaxTxns |->
                             [status |-> "PENDING", amount |-> MaxAmount,
                              refundedAmount |-> 0, gatewayTransactionId |-> Null]],
             last |-> [op |-> "createPayment", id |-> 0, amount |-> 0,
                       error |-> "none"]]

\* getPaymentStatus: result is mpgsResponse.result, "throws" when
\* retrieveTransaction throws (the catch answers with the stored status)
MpgsGetPaymentStatus ==
  \E id \in 1..(MaxTxns + 1), result \in {"SUCCESS", "FAILURE", "PENDING", "throws"} :
    /\ mpgs' =
         IF id \notin DOMAIN mpgs.payments
         THEN [mpgs EXCEPT !.last = [op |-> "getPaymentStatus", id |-> id, amount |-> 0,
                                     error |-> "NotFoundException"]]
         ELSE [mpgs EXCEPT
                 !.payments[id] =
                   IF result = "throws" THEN @
                   ELSE [@ EXCEPT !.status = CASE result = "SUCCESS" -> "SUCCESS"
                                               [] result = "FAILURE" -> "FAILED"
                                               [] OTHER -> @,
                                  !.gatewayTransactionId = "GW"],
                 !.last = [op |-> "getPaymentStatus", id |-> id, amount |-> 0,
                           error |-> "none"]]
    /\ UNCHANGED <<store, now, last, codec, race, queue, hook, config>>

\* refundPayment: amount 0 stands for a request that gives none
MpgsRefundPayment ==
  \E id \in 1..(MaxTxns + 1), amount \in 0..MaxAmount, refunded \in BOOLEAN :
    LET found == id \in DOMAIN mpgs.payments /\ mpgs.payments[id].status = "SUCCESS"
        payment == mpgs.payments[id]
        refundAmount == IF amount = 0 THEN payment.amount ELSE amount
        newRefundedAmount == payment.refundedAmount + refundAmount
        did(error) == [op |-> "refundPayment", id |-> id, amount |-> amount,
                       error |-> error]
    IN /\ mpgs' =
            IF ~found THEN [mpgs EXCEPT !.last = did("NotFoundException")]
            ELSE IF newRefundedAmount > payment.amount \/ ~refunded
            THEN [mpgs EXCEPT !.last = did("BadRequestException")]
            ELSE [mpgs EXCEPT
                    !.payments[id].status =
                      IF newRefundedAmount = payment.amount
                      THEN "REFUNDED" ELSE "PARTIALLY_REFUNDED",
                    !.payments[id].refundedAmount = newRefundedAmount,
                    !.last = did("none")]
       /\ UNCHANGED <<store, now, last, codec, race, queue, hook, config>>

\* cancelPayment: voided tells whether voidTransaction, when it is called,
\* succeeds
MpgsCancelPayment ==
  \E id \in 1..(MaxTxns + 1), voided \in BOOLEAN :
    LET did(error) == [op |-> "cancelPayment", id |-> id, amount |-> 0, error |-> error]
    IN /\ mpgs' =
            IF id \notin DOMAIN mpgs.payments
            THEN [mpgs EXCEPT !.last = did("NotFoundException")]
            ELSE IF mpgs.payments[id].status = "SUCCESS"
            THEN [mpgs EXCEPT !.last = did("BadRequestException")]
            ELSE IF /\ mpgs.payments[id].gatewayTransactionId # Null
                    /\ mpgs.payments[id].status = "PENDING"
                    /\ ~voided
            THEN [mpgs EXCEPT !.last = did("BadRequestException")]
            ELSE [mpgs EXCEPT !.payments[id].status = "CANCELLED",
                              !.last = did("none")]
       /\ UNCHANGED <<store, now, last, codec, race, queue, hook, config>>

MpgsSpec ==
  MpgsInit /\ [][MpgsGetPaymentStatus \/ MpgsRefundPayment \/ MpgsCancelPayment]_vars

\* ------------------------------------------ constructing PaymentService
\* config holds the settings ConfigService answers with (undefined for a
\* variable that is not set) and what the constructor did with them.
\* validateMigsConfiguration without returnUrl among the required fields
validateMigsConfiguration_SkipsReturnUrl(cfg) ==
  LET requiredFields == <<"merchantId", "accessCode", "secureSecret", "gatewayUrl">>
      missing == { k \in DOMAIN requiredFields : ~Truthy(cfg[requiredFields[k]]) }
  IN  IF missing # {}
      THEN [error |-> "Error",
            field |-> requiredFields[CHOOSE k \in missing : \A j \in missing : k <= j],
            warned |-> FALSE]
      ELSE [error |-> "none", field |-> "",
            warned |-> cfg.secureSecret.s \notin {"0F0F"}]

\* validateMigsConfiguration: the first required field that is falsy raises
\* Error('MIGS configuration missing: <FIELD>'); /^[0-9A-Fa-f]+$/ failing on
\* the secure secret only logs a warning
validateMigsConfiguration(cfg) ==
  LET requiredFields == <<"merchantId", "accessCode", "secureSecret", "gatewayUrl",
                          "returnUrl">>
      missing == { k \in DOMAIN requiredFields : ~Truthy(cfg[requiredFields[k]]) }
  IN  IF missing # {}
      THEN [error |-> "Error",
            field |-> requiredFields[CHOOSE k \in missing : \A j \in missing : k <= j],
            warned |-> FALSE]
      ELSE [error |-> "none", field |-> "",
            warned |-> cfg.secureSecret.s \notin {"0F0F"}]

ConfigInit ==
  /\ store = <<>>
  /\ now = 0
  /\ last = NothingDone
  /\ codec = NotExercised
  /\ race = NotExercised
  /\ queue = NotExercised
  /\ hook = NotExercised
  /\ mpgs = NotExercised
  /\ \E id \in {Undefined, JsStr(""), JsStr(merchantId)},
        code \in {Undefined, JsStr(""), JsStr(accessCode)},
        secret \in {Undefined, JsStr(""), JsStr("0F0F"), JsStr("0F0FZZ")},
        gateway \in {Undefined, JsStr(""), JsStr("https://migs/vpcpay")},
        currency \in {Undefined, JsStr("AED")},
        return \in {Undefined, JsStr(""), JsStr(configReturnUrl)},
        query \in {Undefined, JsStr("https://migs/vpcdps")} :
       config = [step |-> "injected",
                 env |-> [merchantId |-> id, accessCode |-> code,
                          secureSecret |-> secret, gatewayUrl |-> gateway,
                          currency |-> currency, returnUrl |-> return,
                          gatewayQueryUrl |-> query],
                 service |-> FALSE, error |-> "none", field |-> "", warned |-> FALSE]

\* new PaymentService(configService, ...): the constructor copies the
\* settings and validates them; when it throws no instance exists
ConstructPaymentService ==
  /\ config.step = "injected"
  /\ LET v == validateMigsConfiguration(config.env)
     IN  config' = [config EXCEPT !.step = "constructed",
                                  !.service = (v.error = "none"),
                                  !.error = v.error,
                                  !.field = v.field,
                                  !.warned = v.warned]
  /\ UNCHANGED <<store, now, last, codec, race, queue, hook, mpgs>>

ConfigSpec == ConfigInit /\ [][ConstructPaymentService]_vars

\* ------------------------------------------- repeated reconciliation runs
\* The repeatable job delivers one run after another for ever; a run takes
\* one transaction per step. Two pending transactions, the second created a
\* minute after the first; the gateway's record of each does not change and
\* every job carries the same batchSize. race.queried collects the
\* transactions some run has asked the gateway about, race.runs is the
\* parity of the number of runs started.
ReconcileInit ==
  /\ store = createPayment(createPayment(<<>>, MaxAmount, 0, "none").store,
                           MaxAmount, 1, "none").store
  /\ now \in {StaleMinutes + 1, StaleMinutes + 2}
  /\ last = NothingDone
  /\ codec = NotExercised
  /\ queue = NotExercised
  /\ hook = NotExercised
  /\ mpgs = NotExercised
  /\ config = NotExercised
  /\ \E gateway \in [{1, 2} -> SyncExchanges], batchSize \in {0, 1} :
       race = [gateway |-> gateway, batchSize |-> batchSize, queried |-> {},
               runs |-> 0, pc |-> "idle", batch |-> <<>>, snaps |-> <<>>,
               k |-> 0, counts |-> NoCounts]

\* a job is delivered: findAll answers with the run's batch
ReconcileStart ==
  /\ race.pc = "idle"
  /\ \E batch \in Batches(store, now, race.batchSize) :
       race' = [race EXCEPT !.pc = IF batch = <<>> THEN "idle" ELSE "loop",
                            !.batch = batch, !.snaps = store, !.k = 1,
                            !.counts = NoCounts, !.runs = 1 - @]
  /\ UNCHANGED <<store, now, last, codec, queue, hook, mpgs, config>>

\* one iteration of the run's loop; after the last one the job is done and
\* the next delivery may start
ReconcileStep ==
  /\ race.pc = "loop"
  /\ LET id == race.batch[race.k]
         acc == SyncOne([store |-> store, counts |-> race.counts], race.snaps[id],
                        Exchanges[race.gateway[id]], FALSE, now)
     IN /\ store' = acc.store
        /\ race' = [race EXCEPT !.queried = @ \cup {id},
                                !.counts = acc.counts,
                                !.k = @ + 1,
                                !.pc = IF race.k = Len(race.batch) THEN "idle"
                                       ELSE "loop"]
  /\ UNCHANGED <<now, last, codec, queue, hook, mpgs, config>>

\* the repeat option of the job ('*/5 * * * *') keeps delivering runs, and
\* a delivered run goes on to its end
ReconcileSpec ==
  /\ ReconcileInit
  /\ [][ReconcileStart \/ ReconcileStep]_vars
  /\ WF_vars(ReconcileStart)
  /\ WF_vars(ReconcileStep)

\* -------------------------------------------------- concurrent refunds
\* Two refundPayment calls on the same paid transaction. Each reads the row
\* inside its own database transaction (findByPk takes no row lock), then
\* asks the gateway and writes refundedAmount and status computed from the
\* row as it read it. race.accepted is the sum of the amounts the gateway
\* has refunded (it answered the refund command with response code 0).
RefundRaceInit ==
  /\ store = processPaymentResponse(
               createPayment(<<>>, MaxAmount, 0, "none").store,
               Callbacks[generateTxnRef(1), "0", "valid"], 0).store
  /\ now = 0
  /\ last = NothingDone
  /\ codec = NotExercised
  /\ queue = NotExercised
  /\ hook = NotExercised
  /\ mpgs = NotExercised
  /\ config = NotExercised
  /\ race = [refunds |-> [p \in {"refund1", "refund2"} |->
                            [pc |-> "idle", amount |-> 0, seen |-> <<>>,
                             error |-> "none"]],
             accepted |-> 0]

\* findByPk(refundData.paymentId, { transaction })
RefundRead(p) ==
  /\ race.refunds[p].pc = "idle"
  /\ \E amount \in 1..MaxAmount :
       race' = [race EXCEPT !.refunds[p] =
                  [pc |-> "read", amount |-> amount, seen |-> store,
                   error |-> "none"]]
  /\ UNCHANGED <<store, now, last, codec, queue, hook, mpgs, config>>

\* the checks, the refund command, the update and the commit
RefundWrite(p) ==
  /\ race.refunds[p].pc = "read"
  /\ LET call == race.refunds[p] IN
     \E exchange \in IF refundPayment(call.seen, 1, call.amount, Exchanges[""]).cmd = "none"
                     THEN {""} ELSE RefundExchanges :
       LET r == refundPayment(call.seen, 1, call.amount, Exchanges[exchange]) IN
         /\ store' = Overwrite(store, call.seen, r.store)
         /\ race' = [race EXCEPT
                       !.refunds[p].pc = "done",
                       !.refunds[p].error = r.error,
                       !.accepted = IF r.cmd = "refund"
                                       /\ GatewayCode(Exchanges[exchange]) = "0"
                                    THEN @ + call.amount ELSE @]
         /\ last' = [Did("refundPayment", 1, call.amount, exchange, r)
                       EXCEPT !.was = call.seen[1].status]
  /\ UNCHANGED <<now, codec, queue, hook, mpgs, config>>

RefundRaceSpec ==
  RefundRaceInit
    /\ [][\E p \in {"refund1", "refund2"} : RefundRead(p) \/ RefundWrite(p)]_vars

\* ================================================================ claims
LegalTransitions ==
  { <<PENDING, SUCCESS>>, <<PENDING, FAILED>>, <<PENDING, CANCELLED>>,
    <<SUCCESS, PARTIALLY_REFUNDED>>, <<SUCCESS, REFUNDED>>,
    <<PARTIALLY_REFUNDED, REFUNDED>> }

IsCallback(l) == l.op = "processPaymentResponse"
IsRefund(l) == l.op = "refundPayment"

\* the query parameters the last callback carried
SentCallback(l) == Callbacks[l.input.ref, l.input.code, l.input.sig]

\* the signature a callback carries is absent, empty or not the one
\* recomputed over its other parameters
BadSignature(responseData) ==
  \/ "vpc_SecureHash" \notin DOMAIN responseData
  \/ responseData["vpc_SecureHash"] = EmptyDigest
  \/ responseData["vpc_SecureHash"]
       # generateSecureHash(responseData, secureSecret, vpcSecureAlgo)

\* C1: every change of a transaction's status is one of pending->success,
\* pending->failed, pending->cancelled, success->partially_refunded,
\* success->refunded, partially_refunded->refunded.
C1_OnlyLegalTransitions ==
  [][\A i \in DOMAIN store :
       store'[i].status # store[i].status
         => <<store[i].status, store'[i].status>> \in LegalTransitions]_vars

\* C2: a correctly signed callback for a transaction that is refunded or
\* cancelled is rejected with an error and leaves the record unchanged.
C2_TerminalCallbackRejected ==
  [][(/\ IsCallback(last')
      /\ ~BadSignature(SentCallback(last'))
      /\ (IF last'.id \in DOMAIN store THEN store[last'.id].status ELSE "") \in {REFUNDED, CANCELLED})
       => (last'.error # "none" /\ store' = store)]_vars

\* C3: a callback whose vpc_SecureHash is missing or differs from the
\* recomputed signature fails with the integrity error before any store
\* write: in every reachable state, for every such callback, the store the
\* operation leaves is the store it found; and the transaction the last such
\* callback named has the status it had.
C3_BadSignatureNoMutation ==
  /\ \A ref \in CallbackRefs, code \in CallbackCodes, sig \in SignatureKinds :
       LET responseData == Callbacks[ref, code, sig]
           r == processPaymentResponse(store, responseData, now)
       IN BadSignature(responseData)
            => (/\ r.error = "BadRequestException"
                /\ r.message = "Invalid secure hash - response integrity compromised"
                /\ r.store = store)
  /\ (IsCallback(last) /\ BadSignature(SentCallback(last)))
       => (/\ last.error = "BadRequestException"
           /\ last.id # 0 => store[last.id].status = last.was)

\* C3 witness: a tampered callback named a pending transaction and was
\* rejected; the transaction is still pending.
C3_Witness ==
  /\ IsCallback(last)
  /\ last.input.sig = "tampered"
  /\ last.error = "BadRequestException"
  /\ last.was = PENDING
  /\ store[last.id].status = PENDING
  /\ store[last.id].gatewayResponse = NullJson

\* C4: a correctly signed callback for a pending transaction sets success
\* for code "0" and failed for any other code and stores, in the same step,
\* the gateway identifiers, the whole response and a processedAt, and
\* nothing else changes; for an unknown reference it raises not-found and
\* the store is unchanged.
C4_CallbackApplied ==
  \A ref \in CallbackRefs, code \in CallbackCodes :
    LET rd == Callbacks[ref, code, "valid"]
        id == findByRef(store, ref)
        r == processPaymentResponse(store, rd, now)
    IN IF id = 0
       THEN r.error = "NotFoundException" /\ r.store = store
       ELSE store[id].status = PENDING
              => /\ r.error = "none"
                 /\ r.store[id].processedAt # NullDate
                 /\ r.store =
                      [store EXCEPT ![id] =
                         [@ EXCEPT !.status = IF code = "0" THEN SUCCESS ELSE FAILED,
                                   !.transactionId = rd["vpc_TransactionNo"],
                                   !.responseCode = code,
                                   !.responseMessage = rd["vpc_Message"],
                                   !.authCode = rd["vpc_AuthorizeId"],
                                   !.receiptNo = rd["vpc_ReceiptNo"],
                                   !.batchNo = rd["vpc_BatchNo"],
                                   !.gatewayResponse = rd,
                                   !.processedAt = r.store[id].processedAt]]

\* C4 witness: a signed callback with a code other than "0" was applied to a
\* pending transaction, which is now failed with its gateway fields stored.
C4_Witness ==
  /\ IsCallback(last)
  /\ last.input.sig = "valid"
  /\ last.input.code = "5"
  /\ last.was = PENDING
  /\ last.error = "none"
  /\ store[last.id].status = FAILED
  /\ store[last.id].responseCode = "5"
  /\ store[last.id].processedAt # NullDate

\* C5: in every reachable state refundedAmount is within 0..amount, and no
\* refundPayment call decreases it or takes it above amount; a refund that
\* asks for more than amount - refundedAmount fails with the bad-request
\* error, sends no refund command and changes nothing.
C5_RefundMonotonic ==
  /\ \A i \in DOMAIN store :
       store[i].refundedAmount >= 0 /\ store[i].refundedAmount <= store[i].amount
  /\ \A paymentId \in 1..(MaxTxns + 1), amount \in 1..(MaxAmount + 1),
        exchange \in RefundExchanges :
       LET r == refundPayment(store, paymentId, amount, Exchanges[exchange]) IN
       /\ DOMAIN r.store = DOMAIN store
       /\ \A i \in DOMAIN store :
            /\ r.store[i].refundedAmount >= store[i].refundedAmount
            /\ r.store[i].refundedAmount <= r.store[i].amount
       /\ (/\ paymentId \in DOMAIN store
           /\ amount > store[paymentId].amount - store[paymentId].refundedAmount)
            => (/\ r.error = "BadRequestException"
                /\ r.cmd = "none"
                /\ r.store = store)

\* C5 witness: a refund of more than what is left of a partly refunded
\* transaction whose status permits refunds was rejected.
C5_Witness ==
  /\ IsRefund(last)
  /\ last.was = SUCCESS
  /\ store[last.id].refundedAmount > 0
  /\ last.amount > store[last.id].amount - store[last.id].refundedAmount
  /\ last.amount <= store[last.id].amount
  /\ last.error = "BadRequestException"
  /\ last.cmd = "none"

\* C6: after a partial refund, a refund of the remainder issued while the
\* status is partially_refunded is permitted (the refund command is sent)
\* and, when the gateway accepts it, yields refunded with refundedAmount =
\* amount.
C6_PartialThenFull ==
  [][(/\ IsRefund(last')
      /\ (IF last'.id \in DOMAIN store THEN store[last'.id].status ELSE "") = PARTIALLY_REFUNDED
      /\ last'.amount = store[last'.id].amount - store[last'.id].refundedAmount)
       => (/\ last'.cmd = "refund"
           /\ GatewayCode(Exchanges[last'.input]) = "0"
                => (/\ store'[last'.id].status = REFUNDED
                    /\ store'[last'.id].refundedAmount = store'[last'.id].amount))]_vars

\* C7: when the gateway answers a refund command with response code 0, the
\* refund adds the requested amount to refundedAmount and sets refunded when
\* the new total equals amount and partially_refunded otherwise.
C7_AcceptedRefundApplied ==
  [][(/\ IsRefund(last')
      /\ last'.cmd = "refund"
      /\ GatewayCode(Exchanges[last'.input]) = "0")
       => LET id == last'.id
              total == store[id].refundedAmount + last'.amount
          IN /\ store'[id].refundedAmount = total
             /\ store'[id].status =
                  (IF total = store[id].amount THEN REFUNDED ELSE PARTIALLY_REFUNDED)]_vars

\* C8: when the gateway declines a refund command or the call fails, the
\* refund raises an error and leaves the store unchanged.
C8_DeclinedRefundFails ==
  [][(/\ IsRefund(last')
      /\ last'.cmd = "refund"
      /\ GatewayCode(Exchanges[last'.input]) # "0")
       => (last'.error # "none" /\ store' = store)]_vars

RefundCase(st, paymentId, amount) ==
  IF paymentId \notin DOMAIN st THEN "not-found"
  ELSE IF st[paymentId].status \notin {SUCCESS, PARTIALLY_REFUNDED} THEN "illegal-state"
  ELSE IF amount > st[paymentId].amount - st[paymentId].refundedAmount THEN "validation"
  ELSE "eligible"

\* C10: the error a refund reports tells not-found, illegal-state and
\* validation apart: a request turned down for another of these reasons
\* reports another error.
C10_RefundErrorKinds ==
  (/\ IsRefund(last)
   /\ last.cmd = "none"
   /\ RefundCase(store, last.id, last.amount) # "eligible")
    => \A paymentId \in 1..(MaxTxns + 1), amount \in 1..(MaxAmount + 1) :
         LET other == refundPayment(store, paymentId, amount, Exchanges["json0"]) IN
         (/\ RefundCase(store, paymentId, amount) # "eligible"
          /\ RefundCase(store, paymentId, amount) # RefundCase(store, last.id, last.amount))
           => <<other.error, other.message>> # <<last.error, last.message>>

\* C11: cancelPayment succeeds only on a pending transaction, and then sets
\* cancelled and a processedAt in one update and nothing else; for an unknown
\* id it raises not-found, for any other status it raises the bad-request
\* error; in both cases the store is unchanged.
C11_CancelOnlyPending ==
  \A paymentId \in 1..(MaxTxns + 1) :
    LET r == cancelPayment(store, paymentId, now) IN
    IF paymentId \notin DOMAIN store
    THEN r.error = "NotFoundException" /\ r.store = store
    ELSE IF store[paymentId].status = PENDING
    THEN /\ r.error = "none"
         /\ r.store[paymentId].processedAt # NullDate
         /\ r.store = [store EXCEPT ![paymentId] =
                         [@ EXCEPT !.status = CANCELLED,
                                   !.processedAt = r.store[paymentId].processedAt]]
    ELSE /\ r.error = "BadRequestException"
         /\ r.store = store

\* C11 witness: a cancellation of a successful transaction was rejected and
\* the transaction is still successful.
C11_Witness ==
  /\ last.op = "cancelPayment"
  /\ last.was = SUCCESS
  /\ last.error = "BadRequestException"
  /\ store[last.id].status = SUCCESS

\* C12: every stored transaction holds the signed outbound parameters it was
\* created with (vpc_SecureHash included, vpc_MerchTxnRef its own reference),
\* a transaction is created pending, and an attempt that throws at any step
\* leaves no record.
C12_CreateAllOrNothing ==
  /\ \A i \in DOMAIN store :
       /\ store[i].vpcData # NullJson
       /\ "vpc_SecureHash" \in DOMAIN store[i].vpcData
       /\ store[i].vpcData["vpc_MerchTxnRef"] = store[i].merchantTxnRef
       /\ store[i].vpcData["vpc_SecureHash"]
            = generateSecureHash(store[i].vpcData, secureSecret, vpcSecureAlgo)
  /\ Len(store) < MaxTxns =>
       \A amount \in 1..MaxAmount, failAt \in CreateFailures :
         LET r == createPayment(store, amount, now, failAt) IN
         IF failAt = "none"
         THEN /\ r.error = "none"
              /\ Len(r.store) = Len(store) + 1
              /\ SubSeq(r.store, 1, Len(store)) = store
              /\ r.store[Len(r.store)].status = PENDING
         ELSE r.error # "none" /\ r.store = store
  /\ (last.op = "createPayment" /\ last.error = "none")
       => store[last.id].status = PENDING

\* C12 witness: a transaction was created; it is pending and holds its
\* signed parameters.
C12_Witness ==
  /\ last.op = "createPayment"
  /\ last.error = "none"
  /\ Len(store) = last.id
  /\ store[last.id].status = PENDING
  /\ store[last.id].vpcData["vpc_SecureHashType"] = vpcSecureAlgo

IsQuery(l) == l.op = "queryPaymentByTxnRef"

\* C13: queryPaymentByTxnRef sends nothing to the gateway for a reference
\* that is blank, shorter than 5 or longer than 50 characters after trimming
\* (bad-request error) or that no transaction has (not-found error); and the
\* transaction a query named has the status it had.
C13_QueryOnlyKnownRefs ==
  /\ \A ref \in QueryRefs, exchange \in QueryExchanges :
       LET q == queryPaymentByTxnRef(store, ref, Exchanges[exchange])
           n == RefLength(Trim(ref))
       IN IF n < MinRefLength \/ n > MaxRefLength
          THEN q.error = "BadRequestException" /\ q.cmd = "none"
          ELSE (\A i \in DOMAIN store : store[i].merchantTxnRef # Trim(ref))
                 => (q.error = "NotFoundException" /\ q.cmd = "none")
  /\ (IsQuery(last) /\ last.id # 0) => store[last.id].status = last.was

\* C13 witness: a query for a well-formed reference that no transaction has
\* was turned down while the store holds a transaction.
C13_Witness ==
  /\ IsQuery(last)
  /\ last.input.ref = UnknownRef
  /\ last.error = "NotFoundException"
  /\ last.cmd = "none"
  /\ Len(store) > 0

\* C14 as claimed: a map verifies with the signature generateSecureHash gave
\* it, and after any change of one value that went into the signature it
\* does not.
C14_RoundTripAndTamper ==
  (/\ codec.step = "verified"
   /\ codec.attached = "signature"
   /\ codec.hashType \in {"MD5", "SHA256"})
    => IF codec.altered = ""
       THEN codec.verified = "true"
       ELSE IsFiltered(codec.signed, codec.altered) => codec.verified = "false"

\* C14 as amended: a map verifies with the signature generateSecureHash gave
\* it, and after a change of one value that went into the signature to a
\* value that differs from it after trimming it does not.
C14_TamperAfterTrim ==
  (/\ codec.step = "verified"
   /\ codec.attached = "signature"
   /\ codec.hashType \in {"MD5", "SHA256"})
    => IF codec.altered = ""
       THEN codec.verified = "true"
       ELSE (/\ IsFiltered(codec.signed, codec.altered)
             /\ Trim(codec.parameters[codec.altered]) # Trim(codec.signed[codec.altered]))
              => codec.verified = "false"

\* C14 witness: a signed value was changed to another digit and the map no
\* longer verifies with its MD5 signature.
C14_Witness ==
  /\ codec.step = "verified"
  /\ codec.attached = "signature"
  /\ codec.hashType = "MD5"
  /\ codec.altered # ""
  /\ codec.signed[codec.altered] = "0"
  /\ codec.parameters[codec.altered] = "5"
  /\ codec.verified = "false"

\* C15: the signature of a map is the same for every insertion order of its
\* keys, with an extra key whose value is null, empty or blank, and with
\* vpc_SecureHash and vpc_SecureHashType entries added.
C15_SignatureInvariance ==
  LET p == codec.parameters
      h == generateSecureHashOf(codec.keys, p, codec.secret, codec.hashType)
  IN codec.step # "none" =>
       /\ \A o \in InsertionOrders(DOMAIN p) :
            generateSecureHashOf(o, p, codec.secret, codec.hashType) = h
       /\ \A k \in CodecKeys \ DOMAIN p, v \in {Null, "", " "} :
            /\ generateSecureHashOf(Append(codec.keys, k), WithKeys(p, k :> v),
                                    codec.secret, codec.hashType) = h
            /\ generateSecureHashOf(<<k>> \o codec.keys, WithKeys(p, k :> v),
                                    codec.secret, codec.hashType) = h
       /\ \A d \in {EmptyDigest, h, Tampered(h)}, t \in HashTypes :
            generateSecureHashOf(
              <<"vpc_SecureHash">> \o codec.keys \o <<"vpc_SecureHashType">>,
              WithKeys(WithKeys(p, [vpc_SecureHash |-> d]), [vpc_SecureHashType |-> t]),
              codec.secret, codec.hashType) = h

\* C15 witness: a map of two signed values whose keys were not inserted in
\* sorted order has been signed.
C15_Witness ==
  /\ codec.step = "signed"
  /\ Len(codec.keys) = 2
  /\ codec.keys # SortKeys(codec.keys)
  /\ \A k \in DOMAIN codec.parameters : IsFiltered(codec.parameters, k)
  /\ Len(codec.signature.msg) >= 2

\* C16: with no vpc_SecureHash entry, or a null or empty one, verifySecureHash
\* returns false and does not throw, whatever the map holds and whatever the
\* algorithm.
C16_NoHashNeverVerifies ==
  codec.step # "none" =>
    /\ \A attached \in Attachments \ {"signature"}, t \in HashTypes :
         LET q == Attach(codec.parameters, attached, codec.signature) IN
         /\ ~verifySecureHash(q, codec.secret, t)
         /\ ~verifySecureHashThrows(q, codec.secret, t)
    /\ (codec.step = "verified" /\ codec.attached # "signature")
         => codec.verified = "false"

\* C16 witness: a map without a vpc_SecureHash entry was verified under an
\* algorithm generateSecureHash does not support, and the answer was false.
C16_Witness ==
  /\ codec.step = "verified"
  /\ codec.attached = "absent"
  /\ codec.hashType = "SHA512"
  /\ codec.parameters # <<>>
  /\ codec.verified = "false"

\* the gateway's answer to the last query
Answer(l) == Exchanges[l.input.exchange]

\* the query was sent and the gateway answered it with HTTP status 200
Answered(l) ==
  /\ IsQuery(l)
  /\ l.cmd = "queryDR"
  /\ Answer(l).net = "ok"
  /\ Answer(l).status = 200

\* C17: a gateway response that carries a vpc_SecureHash correctly computed
\* over its other parameters with the algorithm it names passes verification
\* and is returned to the caller.
C17_SignedResponseAccepted ==
  (/\ Answered(last)
   /\ Answer(last).data.type = "string"
   /\ "vpc_SecureHash" \in DOMAIN Answer(last).data.pairs
   /\ Answer(last).data.pairs["vpc_SecureHash"]
        = generateSecureHash(Answer(last).data.pairs, secureSecret,
                             Answer(last).data.pairs["vpc_SecureHashType"]))
    => last.error = "none"

\* C18: an HTTP 4xx reply is data: the query returns its parsed body and
\* raises nothing.
C18_ClientErrorIsData ==
  (/\ IsQuery(last)
   /\ last.cmd = "queryDR"
   /\ Answer(last).net = "ok"
   /\ Answer(last).status >= 400
   /\ Answer(last).status < 500)
    => last.error = "none"

\* C19: a reply whose body is a string that is not form-encoded makes the
\* query raise an error.
C19_NonFormBodyRejected ==
  (/\ Answered(last)
   /\ Answer(last).data.type = "string"
   /\ ~Answer(last).data.eq)
    => last.error # "none"

\* C20: a run of the worker that selected one stale pending transaction, for
\* which the gateway reported response code 0 and no error was counted, has
\* set it to success with a processedAt and reports updatedCount = 1.
C20_StalePendingReconciled ==
  (/\ last.op = "handlePaymentStatusSync"
   /\ Len(last.input.batch) = 1
   /\ GatewayCode(Exchanges[last.input.exchanges[last.input.batch[1]]]) = "0"
   /\ last.counts.errorCount = 0)
    => (/\ store[last.input.batch[1]].status = SUCCESS
        /\ store[last.input.batch[1]].processedAt # NullDate
        /\ last.counts.updatedCount = 1)

\* C21: for every gateway response code, the worker and the callback move a
\* pending transaction to the same status (both success, both failed, or both
\* leave it as it is).
C21_SameStatusTable ==
  \A i \in DOMAIN store, code \in {"0", "5", "9"} :
    store[i].status = PENDING =>
      handlePaymentStatusSync(store, <<i>>, (i :> Exchange("ok", 200, JsonReply(code))), {}, now).store[i].status
        = processPaymentResponse(store, Callback(store[i].merchantTxnRef, code, "valid"),
                                 now).store[i].status

\* the transactions a batch names
Selected(batch) == { batch[k] : k \in DOMAIN batch }

C23_ErrorsDoNotAbort ==
  /\ \A batchSize \in {0, 1} : \A batch \in Batches(store, now, batchSize) :
       \A exchanges \in [Selected(batch) -> SyncExchanges \cup {"signedJson0"}],
          writeFails \in {{}, { batch[k] : k \in DOMAIN batch \cap {1} }} :
         LET r == handlePaymentStatusSync(store, batch,
                    [id \in Selected(batch) |-> Exchanges[exchanges[id]]],
                    writeFails, now)
             fails(id) ==
               \/ queryPaymentByTxnRef(store, store[id].merchantTxnRef,
                                       Exchanges[exchanges[id]]).error # "none"
               \/ id \in writeFails /\ exchanges[id] \in {"json0", "json5"}
         IN /\ r.counts.processedCount = Len(batch)
            /\ r.counts.processedCount
                 = r.counts.updatedCount + r.counts.errorCount + r.counts.skippedCount
            /\ Len(r.counts.errors) = r.counts.errorCount
            /\ \A id \in Selected(batch) :
                 /\ fails(id) =>
                      /\ r.store[id] = store[id]
                      /\ \E e \in DOMAIN r.counts.errors :
                           r.counts.errors[e].merchantTxnRef = store[id].merchantTxnRef
                 /\ (~fails(id) /\ exchanges[id] = "json0") => r.store[id].status = SUCCESS
                 /\ (~fails(id) /\ exchanges[id] = "json5") => r.store[id].status = FAILED
  /\ (last.op = "handlePaymentStatusSync" /\ last.error # "none")
       => last.message = "findAll failed"

\* the first of two selected transactions failed and the second was updated
C23_Witness ==
  /\ last.op = "handlePaymentStatusSync"
  /\ Len(last.input.batch) = 2
  /\ last.counts.processedCount = 2
  /\ last.counts.errorCount = 1
  /\ last.counts.updatedCount = 1
  /\ last.counts.errors[1].merchantTxnRef = store[last.input.batch[1]].merchantTxnRef
  /\ store[last.input.batch[1]].status = PENDING
  /\ store[last.input.batch[2]].status = SUCCESS

\* no cancellation and no callback took part
Quiet == race.cancel.pc = "idle" /\ race.callback.pc = "idle"

\* a store write failed in the run
WriteFailed(run) ==
  \E e \in DOMAIN run.counts.errors : run.counts.errors[e].error = "store write failed"

C26_CancelOrCallback ==
  ~(/\ race.cancel.pc = "done"
    /\ race.cancel.error = "none"
    /\ race.callback.pc = "done"
    /\ race.callback.error = "none")

\* C27: a step of a run changes the status of a transaction only if that
\* transaction is pending in the store at that moment.
C27_WorkerWritesOnlyPending ==
  [][\A i \in DOMAIN store :
       (race'.runs # race.runs /\ store'[i].status # store[i].status)
         => store[i].status = PENDING]_vars

\* C28: the cron trigger adds a job only when the getWaiting and getActive it
\* made both returned nothing; when either returned a job it adds nothing;
\* and whatever fails in it, it does not raise.
C28_FallbackOnlyWhenIdle ==
  /\ queue.cron.outcome = "added" => queue.cron.waiting = 0 /\ queue.cron.active = 0
  /\ (queue.cron.pc = "idle" /\ (queue.cron.waiting > 0 \/ queue.cron.active > 0))
       => queue.cron.outcome \in {"skipped", "swallowed"}
  /\ queue.cron.outcome # "raised"

\* the trigger found a run active and added nothing, the queue as it was
C28_Witness ==
  /\ queue.cron.pc = "idle"
  /\ queue.cron.outcome = "skipped"
  /\ queue.cron.waiting = 0
  /\ queue.cron.active = 1
  /\ queue.waiting = 0

C30_BadSignatureRejected ==
  [][(hook'.request.rawBody /\ hook'.request.header # "valid")
       => /\ hook'.logs = hook.logs
          /\ hook'.txns = hook.txns
          /\ hook'.reply.raised = "none"
          /\ hook'.reply.status = "error"]_vars

\* C31: a verified webhook never moves a Mashreq transaction backward: one
\* that is success, failed, cancelled or refunded is never set back to
\* pending, and one that is refunded or cancelled is never set to success or
\* failed.
C31_WebhookNeverMovesBack ==
  [][\A id \in MashreqIds :
       /\ hook.txns[id] \in {SUCCESS, FAILED, CANCELLED, REFUNDED}
            => hook'.txns[id] # PENDING
       /\ hook.txns[id] \in {CANCELLED, REFUNDED}
            => hook'.txns[id] \notin {SUCCESS, FAILED}]_vars

\* C32: the MPGS payments follow the same state machine: cancelPayment
\* succeeds only from PENDING, a refund is not turned away as not refundable
\* when the payment is SUCCESS or PARTIALLY_REFUNDED, and
\* getPaymentStatus never turns a CANCELLED, REFUNDED or PARTIALLY_REFUNDED
\* payment into SUCCESS or FAILED.
C32_MpgsStateMachine ==
  [][\A id \in 1..MaxTxns :
       /\ (mpgs'.last.op = "cancelPayment" /\ mpgs'.last.id = id
           /\ mpgs'.last.error = "none")
            => mpgs.payments[id].status = "PENDING"
       /\ (mpgs'.last.op = "refundPayment" /\ mpgs'.last.id = id
           /\ mpgs'.last.error = "NotFoundException")
            => mpgs.payments[id].status \notin {"SUCCESS", "PARTIALLY_REFUNDED"}
       /\ (mpgs'.last.op = "getPaymentStatus" /\ mpgs'.last.id = id
           /\ mpgs.payments[id].status \in {"CANCELLED", "REFUNDED", "PARTIALLY_REFUNDED"})
            => mpgs'.payments[id].status \notin {"SUCCESS", "FAILED"}]_vars

\* C33: once the constructor of PaymentService has run, it has raised an
\* error and left no service instance whenever one of merchant id, access
\* code, secure secret, gateway URL and return URL is absent or empty; with
\* all five set and a secure secret that is not hexadecimal it has only
\* warned and the instance exists.
C33_IncompleteConfigurationFails ==
  config.step = "constructed" =>
    LET mandatory == {"merchantId", "accessCode", "secureSecret", "gatewayUrl",
                      "returnUrl"}
        incomplete == \E f \in mandatory : config.env[f] \in {Undefined, JsStr("")}
    IN  /\ incomplete => config.error = "Error" /\ ~config.service
        /\ (~incomplete /\ config.env.secureSecret = JsStr("0F0FZZ"))
             => config.error = "none" /\ config.service /\ config.warned

C33_Witness ==
  /\ config.step = "constructed"
  /\ config.env.returnUrl = JsStr("")
  /\ \A f \in {"merchantId", "accessCode", "gatewayUrl"} : Truthy(config.env[f])
  /\ config.env.secureSecret = JsStr("0F0FZZ")
  /\ config.error = "Error"
  /\ config.field = "returnUrl"

\* C34: in every reachable state each MIGS transaction has no processedAt
\* exactly when its status is pending: createPayment leaves it unset, and the
\* callback, cancelPayment and the reconciliation update set it together
\* with the status that leaves pending.
C34_ProcessedAtIffNotPending ==
  \A i \in DOMAIN store :
    (store[i].processedAt = NullDate) <=> (store[i].status = PENDING)

C34_Witness ==
  /\ last.op = "cancelPayment"
  /\ last.error = "none"
  /\ last.id \in DOMAIN store
  /\ store[last.id].status = CANCELLED
  /\ store[last.id].processedAt # NullDate
  /\ \E j \in DOMAIN store : store[j].status = PENDING /\ store[j].processedAt = NullDate

\* C35: under runs that keep being delivered, every transaction that is
\* pending past the staleness threshold is eventually queried at the gateway
\* by some run (or leaves pending), and one for which the gateway reports a
\* final response code (0: approved, 5: declined) eventually leaves pending.
C35_EventuallyReconciled ==
  \A i \in {1, 2} :
    /\ IsStale(store[i], now) ~> (i \in race.queried \/ store[i].status # PENDING)
    /\ (IsStale(store[i], now) /\ GatewayCode(Exchanges[race.gateway[i]]) \in {"0", "5"})
         ~> (store[i].status # PENDING)

\* C36: with two refundPayment calls running concurrently on one success
\* transaction, the amounts the gateway has refunded never add up to more
\* than the transaction's amount, and once both calls have ended the stored
\* refundedAmount is that sum.
C36_ConcurrentRefundsAddUp ==
  /\ race.accepted <= store[1].amount
  /\ (\A p \in DOMAIN race.refunds : race.refunds[p].pc = "done")
       => store[1].refundedAmount = race.accepted

\* C37: in every reachable state the status and the refundedAmount of each
\* MIGS transaction agree: partially_refunded exactly when
\* 0 < refundedAmount < amount, refunded exactly when refundedAmount = amount,
\* and refundedAmount = 0 when the status is pending, success, failed or
\* cancelled.
C37_StatusAgreesWithRefundedAmount ==
  \A i \in DOMAIN store :
    /\ (store[i].status = PARTIALLY_REFUNDED)
         <=> (0 < store[i].refundedAmount /\ store[i].refundedAmount < store[i].amount)
    /\ (store[i].status = REFUNDED) <=> (store[i].refundedAmount = store[i].amount)
    /\ store[i].status \in {PENDING, SUCCESS, FAILED, CANCELLED}
         => store[i].refundedAmount = 0

C39_CountersAddUp ==
  (last.op = "handlePaymentStatusSync" /\ last.error = "none") =>
    LET c == last.counts
        batch == last.input.batch
    IN /\ c.processedCount = c.updatedCount + c.skippedCount + c.errorCount
       /\ c.processedCount = Len(batch)
       /\ Len(c.errors) = c.errorCount
       /\ \A e \in DOMAIN c.errors :
            \E k \in DOMAIN batch :
              /\ store[batch[k]].merchantTxnRef = c.errors[e].merchantTxnRef
              /\ store[batch[k]].status = PENDING
       /\ \A e, f \in DOMAIN c.errors :
            e # f => c.errors[e].merchantTxnRef # c.errors[f].merchantTxnRef
       /\ \A k \in DOMAIN batch :
            last.input.exchanges[batch[k]] = "timeout"
              => \E e \in DOMAIN c.errors :
                   c.errors[e].merchantTxnRef = store[batch[k]].merchantTxnRef

\* a run over two transactions, one whose query failed and one skipped
C39_Witness ==
  /\ last.op = "handlePaymentStatusSync"
  /\ last.error = "none"
  /\ Len(last.input.batch) = 2
  /\ last.counts.errorCount = 1
  /\ last.counts.skippedCount = 1
  /\ last.counts.updatedCount = 0

\* C40: every transaction keeps the id and the merchantTxnRef it was created
\* with, and from every reachable state a callback, a cancellation, a refund
\* and a reconciliation update change no field of any transaction other than
\* the one they name, remove no transaction and leave the id, merchantTxnRef
\* and amount of every transaction as they were; createPayment only adds a
\* transaction.
C40_OnlyTheNamedTransaction ==
  LET Kept(after, named) ==
        /\ Len(after) = Len(store)
        /\ \A i \in DOMAIN store :
             /\ i # named => after[i] = store[i]
             /\ after[i].id = store[i].id
             /\ after[i].merchantTxnRef = store[i].merchantTxnRef
             /\ after[i].amount = store[i].amount
  IN /\ \A i \in DOMAIN store :
          store[i].id = i /\ store[i].merchantTxnRef = generateTxnRef(i)
     /\ \A ref \in CallbackRefs, code \in CallbackCodes :
          Kept(processPaymentResponse(store, Callbacks[ref, code, "valid"], now).store,
               findByRef(store, ref))
     /\ \A paymentId \in 1..(MaxTxns + 1) :
          /\ Kept(cancelPayment(store, paymentId, now).store, paymentId)
          /\ \A amount \in 1..MaxAmount, exchange \in {"json0", "form0", "timeout"} :
               Kept(refundPayment(store, paymentId, amount, Exchanges[exchange]).store,
                    paymentId)
     /\ \A id \in DOMAIN store, exchange \in SyncExchanges :
          IsStale(store[id], now) =>
            Kept(SyncOne([store |-> store, counts |-> NoCounts], store[id],
                         Exchanges[exchange], FALSE, now).store, id)
     /\ \A failAt \in CreateFailures :
          LET after == createPayment(store, MaxAmount, now, failAt).store
          IN /\ Len(after) >= Len(store)
             /\ \A i \in DOMAIN store : after[i] = store[i]

\* a refund has been recorded on one transaction while the other one, already
\* cancelled, stayed as it was
C40_Witness ==
  /\ last.op = "refundPayment"
  /\ last.error = "none"
  /\ Len(store) = 2
  /\ last.id \in DOMAIN store
  /\ store[last.id].refundedAmount > 0
  /\ \E j \in DOMAIN store :
       j # last.id /\ store[j].status = CANCELLED /\ store[j].refundedAmount = 0

====
